---- MODULE Spec2Model ----
(***************************************************************************)
(* Model of the simulation core of model_tuning:                           *)
(*   - OrderbookReconstructor (simulation/orderbook_reconstructor.py)      *)
(*   - FillDrivenSimulator    (simulation/fill_driven_simulator.py)        *)
(*   - RealDataSimulator      (simulation/simulator.py)                    *)
(*   - Inventory, EnhancedPositionState, BrainDeadQuoter, snap_to_tick     *)
(*                                                                         *)
(* Units.  Prices are integers in mils (0.001 dollars), so 0.52 is 520 and *)
(* one tick (0.01) is 10.  Timestamps are integers on a grid whose step is *)
(* the simulator's epsilon (0.001), so "timestamp - 0.001" is t - 1.       *)
(* Floats are modelled by exact rationals: an average cost is a pair       *)
(* <<num, den>> (den > 0) in mils.  A price-level dict is a function from  *)
(* its keys to sizes; str(price) maps a float to its key and float(key)    *)
(* maps back (repr round-trips for floats), so the key is the price.       *)
(* The lists of levels of a returned Orderbook are modelled as sets of     *)
(* [price, size] records (best_bid / best_ask only take max / min).        *)
(***************************************************************************)
EXTENDS Integers, Sequences, FiniteSets, TLC

VARIABLES
    \* -- OrderbookReconstructor
    raw_data,          \* the dict given to from_raw_data
    recon,             \* the OrderbookReconstructor instance
    apply_count,       \* history: per index of the sorted log, times _apply_change ran on it
    max_queried,       \* history: largest timestamp passed to get_orderbook_at (-1: none)
    last_query,        \* history: timestamp of the latest get_orderbook_at call (-1: none)
    monotone,          \* history: all get_orderbook_at calls so far were non-decreasing
    calls,             \* history: number of get_orderbook_at calls so far, saturating at 2
    returned,          \* the snapshot returned by the latest get_orderbook_at
    \* -- arguments of run()
    quoter,            \* the quoter object
    oracle,            \* list of OracleSnapshot, sorted by timestamp
    initial_inventory, \* Inventory | None
    orderbooks,        \* RealDataSimulator.run: list of OrderbookSnapshot, sorted by timestamp
    fills,             \* RealDataSimulator.run: list of RealFill, sorted by timestamp
    resolution_timestamp, \* RealDataSimulator.run: float | None
    \* -- locals of run()
    pc,                \* "idle", "loop" (inside the for loop) or "done" (returned)
    idx,               \* number of input items the for loop has consumed
    inventory,
    position_history,
    matched_fills,
    oracle_history,
    total_fills_considered,
    up_fills,
    down_fills,
    total_volume,
    orderbook_history, \* RealDataSimulator.run only
    windows,           \* history, RealDataSimulator.run: per processed snapshot, <<start_idx, end_idx>>
    step,              \* locals of the latest loop iteration (fill, orderbook, quote, matched, ...)
    sells_seen,        \* history: number of consumed input trades with side == "sell"
    result             \* the result object run() returned

reconVars == <<raw_data, recon, apply_count, max_queried, last_query, monotone, calls, returned>>
argVars == <<quoter, oracle, initial_inventory, orderbooks, fills, resolution_timestamp>>
runVars == <<pc, idx, inventory, position_history, matched_fills, oracle_history,
             total_fills_considered, up_fills, down_fills, total_volume, orderbook_history, windows,
             step,
             sells_seen, result>>
vars == <<reconVars, argVars, runVars>>

\* ------------------------------------------------------------------ bounds
MaxTime == 2
MaxChanges == 2

\* ------------------------------------------------------------------ data
\* Optional values (float | None): None is <<>>, a value x is <<x>>
None == <<>>
Some(x) == <<x>>
UP_TOKEN == "up_token_123"
DOWN_TOKEN == "down_token_456"
Times == 0 .. MaxTime
ChangeSizes == {0, 2}

Max(a, b) == IF a >= b THEN a ELSE b
Min(a, b) == IF a <= b THEN a ELSE b

EmptyDict == [k \in {} |-> 0]
DictSet(d, k, v) == [x \in (DOMAIN d) \cup {k} |-> IF x = k THEN v ELSE d[x]]
DictPop(d, k) == [x \in (DOMAIN d) \ {k} |-> d[x]]

\* str.lower() on the side strings that occur in the raw format
Lower(s) == CASE s = "BUY" -> "buy" [] s = "SELL" -> "sell" [] OTHER -> s

\* ------------------------------------------------------------------ bisect
RECURSIVE bisect_right_loop(_, _, _, _)
bisect_right_loop(a, x, lo, hi) ==
    IF lo < hi
    THEN LET mid == (lo + hi) \div 2
         IN  IF x < a[mid + 1]
             THEN bisect_right_loop(a, x, lo, mid)
             ELSE bisect_right_loop(a, x, mid + 1, hi)
    ELSE lo

bisect_right_lt(a, x) == Cardinality({i \in DOMAIN a : a[i] < x})

bisect_right(a, x) == bisect_right_loop(a, x, 0, Len(a))

\* ------------------------------------------------------------------ sorted(..., key=timestamp)
\* Python's sorted is stable: insert each element after the elements with key <= its key.
keeps_place_strict(last_key, key) == last_key < key

\* an element stays behind the elements whose key is not larger than its own
keeps_place(last_key, key) == last_key <= key

RECURSIVE InsertByTimestamp(_, _)
InsertByTimestamp(s, c) ==
    IF s = <<>> THEN <<c>>
    ELSE IF keeps_place(s[Len(s)].timestamp, c.timestamp)
         THEN Append(s, c)
         ELSE Append(InsertByTimestamp(SubSeq(s, 1, Len(s) - 1), c), s[Len(s)])

RECURSIVE sorted_by_timestamp(_)
sorted_by_timestamp(s) ==
    IF s = <<>> THEN <<>>
    ELSE InsertByTimestamp(sorted_by_timestamp(SubSeq(s, 1, Len(s) - 1)), s[Len(s)])

\* ------------------------------------------------------------------ OrderbookReconstructor
RECURSIVE LevelsToDict(_, _)
LevelsToDict(levels, d) ==
    IF levels = <<>> THEN d
    ELSE LevelsToDict(Tail(levels), DictSet(d, Head(levels).price, Head(levels).size))

from_raw_data(raw) ==
    LET snaps == raw.initial_snapshots
        sorted_changes == sorted_by_timestamp(raw.price_changes)
        side_of(tok, s) ==
            IF tok \in DOMAIN snaps THEN LevelsToDict(snaps[tok][s], EmptyDict) ELSE EmptyDict
        RECURSIVE MaxTs(_, _)
        MaxTs(toks, m) ==
            IF toks = {} THEN m
            ELSE LET t == CHOOSE x \in toks : TRUE
                 IN  MaxTs(toks \ {t}, Max(m, snaps[t].timestamp))
    IN  [ up_token_id        |-> raw.up_token_id,
          down_token_id      |-> raw.down_token_id,
          up_bids            |-> side_of(raw.up_token_id, "bids"),
          up_asks            |-> side_of(raw.up_token_id, "asks"),
          down_bids          |-> side_of(raw.down_token_id, "bids"),
          down_asks          |-> side_of(raw.down_token_id, "asks"),
          price_changes      |-> sorted_changes,
          change_timestamps  |-> [i \in DOMAIN sorted_changes |-> sorted_changes[i].timestamp],
          last_processed_idx |-> -1,
          initial_timestamp  |-> MaxTs(DOMAIN snaps, 0) ]

\* one level update: size > 0 stores the size, anything else pops the key
set_level_add(d, price, size) ==
    IF size > 0
    THEN DictSet(d, price, (IF price \in DOMAIN d THEN d[price] ELSE 0) + size)
    ELSE DictPop(d, price)

set_level(d, price, size) ==
    IF size > 0 THEN DictSet(d, price, size) ELSE DictPop(d, price)

\* "elif asset_id == self.down_token_id"
is_down_token_else(r, asset_id) == TRUE

is_down_token(r, asset_id) == asset_id = r.down_token_id

apply_change(r, change) ==
    LET asset_id == change.asset_id
        price_str == change.price
        size == change.size
        side == Lower(change.side)
    IN  IF asset_id = r.up_token_id
        THEN IF side = "buy"
             THEN [r EXCEPT !.up_bids = set_level(@, price_str, size)]
             ELSE [r EXCEPT !.up_asks = set_level(@, price_str, size)]
        ELSE IF is_down_token(r, asset_id)
        THEN IF side = "buy"
             THEN [r EXCEPT !.down_bids = set_level(@, price_str, size)]
             ELSE [r EXCEPT !.down_asks = set_level(@, price_str, size)]
        ELSE r

Levels(d) == {[price |-> p, size |-> d[p]] : p \in {k \in DOMAIN d : d[k] > 0}}

build_snapshot_swapped(r, timestamp) ==
    [ up        |-> [bids |-> Levels(r.up_bids), asks |-> Levels(r.up_asks)],
      down      |-> [bids |-> Levels(r.up_bids), asks |-> Levels(r.down_asks)],
      timestamp |-> timestamp ]

build_snapshot(r, timestamp) ==
    [ up        |-> [bids |-> Levels(r.up_bids), asks |-> Levels(r.up_asks)],
      down      |-> [bids |-> Levels(r.down_bids), asks |-> Levels(r.down_asks)],
      timestamp |-> timestamp ]

\* for idx in range(lo, hi + 1): self._apply_change(self._price_changes[idx])   (0-based idx)
RECURSIVE apply_range(_, _, _)
apply_range(r, lo, hi) ==
    IF lo > hi THEN r
    ELSE apply_range(apply_change(r, r.price_changes[lo + 1]), lo + 1, hi)

next_processed_idx_reset(last, target_idx) == target_idx

next_processed_idx(last, target_idx) == Max(last, target_idx)

\* "range(self._last_processed_idx + 1, target_idx + 1)": the first index applied
first_idx_to_apply_zero(last_processed_idx) == 0

first_idx_to_apply(last_processed_idx) == last_processed_idx + 1

\* get_orderbook_at as a function of the instance: the instance after the call, the
\* snapshot returned, and the 0-based indices of the log it applied
get_orderbook_at(r, timestamp) ==
    IF r.change_timestamps = <<>>
    THEN [recon |-> r, snapshot |-> build_snapshot(r, timestamp), applied |-> {}]
    ELSE LET target_idx == bisect_right(r.change_timestamps, timestamp) - 1
             r1 == apply_range(r, first_idx_to_apply(r.last_processed_idx), target_idx)
             r2 == [r1 EXCEPT !.last_processed_idx =
                                  next_processed_idx(r.last_processed_idx, target_idx)]
         IN  [recon |-> r2, snapshot |-> build_snapshot(r2, timestamp),
              applied |-> first_idx_to_apply(r.last_processed_idx) .. target_idx]

\* ------------------------------------------------------------------ inputs of the reconstructor
\* price changes as the fetcher records them; sizes are never negative, 0 removes a level
Changes ==
    [timestamp : Times, asset_id : {UP_TOKEN, DOWN_TOKEN}, price : {520},
     size : ChangeSizes, side : {"BUY", "SELL"}]

RECURSIVE SeqsUpTo(_, _)
SeqsUpTo(S, n) ==
    IF n = 0 THEN {<<>>}
    ELSE LET shorter == SeqsUpTo(S, n - 1)
         IN  shorter \cup {Append(s, x) : s \in {q \in shorter : Len(q) = n - 1}, x \in S}

IsSortedByTimestamp(s) == \A i \in 1 .. Len(s) - 1 : s[i].timestamp <= s[i + 1].timestamp

\* the books an initial snapshot may hold: distinct prices per side, positive sizes
EmptyBook == [bids |-> <<>>, asks |-> <<>>]
FullBook ==
    [bids |-> <<[price |-> 520, size |-> 1], [price |-> 500, size |-> 2]>>,
     asks |-> <<[price |-> 540, size |-> 1]>>]
RawBooks == {EmptyBook, FullBook}

RawSnapshot(t, b) == [timestamp |-> t, bids |-> b.bids, asks |-> b.asks]

RawData(ub, db, dt, changes) ==
    [ up_token_id       |-> UP_TOKEN,
      down_token_id     |-> DOWN_TOKEN,
      initial_snapshots |-> (UP_TOKEN :> RawSnapshot(0, ub)) @@ (DOWN_TOKEN :> RawSnapshot(dt, db)),
      price_changes     |-> changes ]

\* initial snapshots: both books full and taken at 0, or UP empty and DOWN taken later
InitialBooks == {<<FullBook, FullBook, 0>>, <<EmptyBook, FullBook, 1>>}

SortedLogs(S, n) == {s \in SeqsUpTo(S, n) : IsSortedByTimestamp(s)}

ReconInputs ==
    {RawData(b[1], b[2], b[3], ch) : b \in InitialBooks, ch \in SortedLogs(Changes, MaxChanges)}

\* ------------------------------------------------------------------ history of get_orderbook_at calls
History ==
    [apply_count |-> apply_count, max_queried |-> max_queried, last_query |-> last_query,
     monotone |-> monotone, calls |-> calls]

\* the history after a call get_orderbook_at(t) whose outcome was res
Observe(h, t, res) ==
    [ apply_count |-> [i \in DOMAIN h.apply_count |->
                          h.apply_count[i] + (IF (i - 1) \in res.applied THEN 1 ELSE 0)],
      max_queried |-> Max(h.max_queried, t),
      last_query  |-> t,
      monotone    |-> (h.monotone /\ t >= h.last_query),
      calls       |-> Min(h.calls + 1, 2) ]

SetHistory(h) ==
    /\ apply_count' = h.apply_count
    /\ max_queried' = h.max_queried
    /\ last_query' = h.last_query
    /\ monotone' = h.monotone
    /\ calls' = h.calls

\* ------------------------------------------------------------------ reconstructor under arbitrary queries
\* no simulator is running
NoRun ==
    /\ quoter = None /\ oracle = <<>> /\ initial_inventory = None
    /\ orderbooks = <<>> /\ fills = <<>> /\ resolution_timestamp = None
    /\ orderbook_history = <<>> /\ windows = <<>>
    /\ pc = "idle" /\ idx = 0 /\ inventory = None
    /\ position_history = <<>> /\ matched_fills = <<>> /\ oracle_history = <<>>
    /\ total_fills_considered = 0 /\ up_fills = 0 /\ down_fills = 0 /\ total_volume = 0
    /\ step = None /\ sells_seen = 0 /\ result = None

NoSnapshot ==
    [up |-> [bids |-> {}, asks |-> {}], down |-> [bids |-> {}, asks |-> {}], timestamp |-> -1]

ReconInit ==
    /\ raw_data \in ReconInputs
    /\ recon = from_raw_data(raw_data)
    /\ apply_count = [i \in 1 .. Len(raw_data.price_changes) |-> 0]
    /\ max_queried = -1
    /\ last_query = -1
    /\ monotone = TRUE
    /\ calls = 0
    /\ returned = NoSnapshot
    /\ NoRun

Query(t) ==
    LET res == get_orderbook_at(recon, t)
    IN  /\ recon' = res.recon
        /\ returned' = res.snapshot
        /\ SetHistory(Observe(History, t, res))
        /\ UNCHANGED <<raw_data, argVars, runVars>>

GetOrderbookAt == \E t \in Times : Query(t)

ReconNext == GetOrderbookAt

SpecRecon == ReconInit /\ [][ReconNext]_vars

\* ------------------------------------------------------------------ exact arithmetic for floats
RECURSIVE GCD(_, _)
GCD(a, b) == IF b = 0 THEN a ELSE GCD(b, a % b)
Abs(x) == IF x < 0 THEN -x ELSE x

\* a rational <<n, d>> with d > 0, in lowest terms
Rat(n, d) == LET g == GCD(Abs(n), d) IN IF g = 0 THEN <<0, 1>> ELSE <<n \div g, d \div g>>
RInt(n) == <<n, 1>>
RAdd(a, b) == Rat(a[1] * b[2] + b[1] * a[2], a[2] * b[2])
RSub(a, b) == Rat(a[1] * b[2] - b[1] * a[2], a[2] * b[2])
RScale(k, a) == Rat(k * a[1], a[2])
REq(a, b) == a[1] * b[2] = b[1] * a[2]

ONE == 1000    \* 1.0 dollar in mils

\* ------------------------------------------------------------------ core/models.py: Inventory
Inventory(up_qty, up_avg, down_qty, down_avg) ==
    [up_qty |-> up_qty, up_avg |-> up_avg, down_qty |-> down_qty, down_avg |-> down_avg]

combined_avg(inv) == RAdd(inv.up_avg, inv.down_avg)
pairs(inv) == Min(inv.up_qty, inv.down_qty)
potential_profit(inv) == RSub(RInt(ONE), combined_avg(inv))

\* (qty_old * avg_old + qty * price) / new_qty
weighted_avg_unweighted(old_qty, old_avg, qty, price, new_qty) ==
    Rat(old_avg[1] + price * old_avg[2], 2 * old_avg[2])

weighted_avg(old_qty, old_avg, qty, price, new_qty) ==
    Rat(old_qty * old_avg[1] + qty * price * old_avg[2], old_avg[2] * new_qty)

update_position(inv, side, qty, price) ==
    IF side = "up"
    THEN LET new_qty == inv.up_qty + qty
             new_avg == IF new_qty > 0
                        THEN weighted_avg(inv.up_qty, inv.up_avg, qty, price, new_qty)
                        ELSE inv.up_avg
         IN  Inventory(new_qty, new_avg, inv.down_qty, inv.down_avg)
    ELSE LET new_qty == inv.down_qty + qty
             new_avg == IF new_qty > 0
                        THEN weighted_avg(inv.down_qty, inv.down_avg, qty, price, new_qty)
                        ELSE inv.down_avg
         IN  Inventory(inv.up_qty, inv.up_avg, new_qty, new_avg)

\* ------------------------------------------------------------------ core/utils.py: snap_to_tick
TICK_SIZE == 10

\* Python round(): to the nearest integer, ties to the even one
round_half_even(n, d) ==
    LET q == n \div d
        r == n % d
    IN  IF 2 * r < d THEN q
        ELSE IF 2 * r > d THEN q + 1
        ELSE IF q % 2 = 0 THEN q ELSE q + 1

\* value is a rational number of mils
snap_to_tick(value) == round_half_even(value[1], value[2] * TICK_SIZE) * TICK_SIZE

\* ------------------------------------------------------------------ simulation/models.py: Orderbook
RECURSIVE SetMax(_)
SetMax(S) == LET x == CHOOSE y \in S : TRUE
             IN  IF S = {x} THEN x ELSE Max(x, SetMax(S \ {x}))
RECURSIVE SetMin(_)
SetMin(S) == LET x == CHOOSE y \in S : TRUE
             IN  IF S = {x} THEN x ELSE Min(x, SetMin(S \ {x}))

best_bid_lowest(book) == IF book.bids = {} THEN None ELSE Some(SetMin({l.price : l \in book.bids}))

best_bid(book) == IF book.bids = {} THEN None ELSE Some(SetMax({l.price : l \in book.bids}))
best_ask(book) == IF book.asks = {} THEN None ELSE Some(SetMin({l.price : l \in book.asks}))

\* "x or default" on float | None: the default replaces None and 0.0
OrDefault(opt, default) == IF opt = None \/ opt = Some(0) THEN default ELSE opt[1]

\* ------------------------------------------------------------------ simulation/quoters.py: BrainDeadQuoter
BrainDeadQuoter(offset, size) == [offset |-> offset, size |-> size]

SimpleQuote(bid_up, size_up, bid_down, size_down) ==
    [bid_up |-> bid_up, size_up |-> size_up, bid_down |-> bid_down, size_down |-> size_down]

bid_below(q, best) ==
    IF best = None THEN None
    ELSE LET bid == snap_to_tick(RInt(best[1] - q.offset))
         IN  IF bid <= 0 THEN None ELSE Some(bid)

quote(q, orderbook, oracle_snapshot) ==
    SimpleQuote(bid_below(q, best_bid(orderbook.up)), q.size,
                bid_below(q, best_bid(orderbook.down)), q.size)

\* ------------------------------------------------------------------ simulation/models.py: EnhancedPositionState
merged_pnl_of(inv) == RScale(pairs(inv), RSub(RInt(ONE), combined_avg(inv)))

\* "book.best_bid or 0.0": the price at which the excess side is marked
mark_price_at_ask(book) == OrDefault(best_ask(book), 0)

mark_price(book) == OrDefault(best_bid(book), 0)

from_inventory_and_orderbook(inv, orderbook, timestamp) ==
    LET directional_qty == Abs(inv.up_qty - inv.down_qty)
        excess_side == IF inv.up_qty > inv.down_qty THEN "up"
                       ELSE IF inv.down_qty > inv.up_qty THEN "down" ELSE "balanced"
        directional_market_price ==
            IF excess_side = "up" THEN mark_price(orderbook.up)
            ELSE IF excess_side = "down" THEN mark_price(orderbook.down)
            ELSE 0
        directional_avg_cost ==
            IF excess_side = "up" THEN inv.up_avg
            ELSE IF excess_side = "down" THEN inv.down_avg
            ELSE RInt(0)
        directional_pnl ==
            IF directional_qty > 0
            THEN RScale(directional_qty, RSub(RInt(directional_market_price), directional_avg_cost))
            ELSE RInt(0)
    IN  [ timestamp                |-> timestamp,
          up_qty                   |-> inv.up_qty,
          down_qty                 |-> inv.down_qty,
          up_avg                   |-> inv.up_avg,
          down_avg                 |-> inv.down_avg,
          pairs                    |-> pairs(inv),
          combined_avg             |-> combined_avg(inv),
          potential_profit         |-> potential_profit(inv),
          merged_pnl               |-> merged_pnl_of(inv),
          directional_qty          |-> directional_qty,
          excess_side              |-> excess_side,
          directional_market_price |-> directional_market_price,
          directional_avg_cost     |-> directional_avg_cost,
          directional_pnl          |-> directional_pnl ]

total_pnl(ps) == RAdd(ps.merged_pnl, ps.directional_pnl)

\* ------------------------------------------------------------------ simulation/fill_driven_simulator.py
Epsilon == 1
MaxFills == 2

RealFill(price, size, side, timestamp, outcome) ==
    [price |-> price, size |-> size, side |-> side, timestamp |-> timestamp, outcome |-> outcome]

MatchedFill(timestamp, outcome, price, size, original_fill) ==
    [timestamp |-> timestamp, outcome |-> outcome, price |-> price, size |-> size,
     original_fill |-> original_fill]

OracleSnapshot(price, threshold, timestamp) ==
    [price |-> price, threshold |-> threshold, timestamp |-> timestamp]

\* "idx = bisect_right(timestamps, timestamp) - 1": 0-based, -1 when every reading is later
oracle_idx_strictly_before(timestamps, timestamp) == bisect_right_lt(timestamps, timestamp) - 1

oracle_idx(timestamps, timestamp) == bisect_right(timestamps, timestamp) - 1

get_oracle_at(timestamp, oracle_data) ==
    IF oracle_data = <<>> THEN None
    ELSE LET timestamps == [i \in DOMAIN oracle_data |-> oracle_data[i].timestamp]
             i == oracle_idx(timestamps, timestamp)
         IN  IF i < 0 THEN Some(oracle_data[1]) ELSE Some(oracle_data[i + 1])

\* fill.price <= our bid
fill_hits_bid_ge(price, bid) == price >= bid

fill_hits_bid(price, bid) == price <= bid

\* the size recorded for a match: the whole fill, whatever the quoted size
matched_size_capped(fill, quoted_size) == Min(fill.size, quoted_size)

matched_size(fill, quoted_size) == fill.size

\* which input trades the loop considers
is_considered_any(fill) == TRUE

is_considered(fill) == fill.side = "sell"

\* whether an iteration records a position snapshot: only on a match
records_position_always(matched) == TRUE

records_position(matched) == matched

\* the timestamp at which the pre-trade book is reconstructed
pre_trade_time_at(fill) == fill.timestamp

pre_trade_time(fill) == fill.timestamp - Epsilon

NoStep ==
    [fill |-> None, orderbook |-> None, oracle_snapshot |-> None, quote |-> None,
     matched |-> FALSE, current_orderbook |-> None]

\* run(), lines 131-144: the state on entry to the for loop
RunProlog ==
    /\ pc = "loop"
    /\ idx = 0
    /\ inventory = IF initial_inventory = None
                   THEN Some(Inventory(0, <<500, 1>>, 0, <<500, 1>>))
                   ELSE initial_inventory
    /\ position_history = <<>>
    /\ matched_fills = <<>>
    /\ oracle_history = <<>>
    /\ total_fills_considered = 0
    /\ up_fills = 0
    /\ down_fills = 0
    /\ total_volume = 0
    /\ step = NoStep
    /\ sells_seen = 0
    /\ result = None

\* the body of the for loop of FillDrivenSimulator.run on the input trade fill
ConsumeFill(fill) ==
    /\ pc = "loop"
    /\ step.fill # None => fill.timestamp >= step.fill[1].timestamp
    /\ idx' = idx + 1
    /\ sells_seen' = sells_seen + (IF fill.side = "sell" THEN 1 ELSE 0)
    /\ IF ~is_considered(fill)
       THEN /\ step' = [step EXCEPT !.fill = Some(fill)]
            /\ UNCHANGED <<reconVars, argVars, pc, inventory, position_history, matched_fills,
                           oracle_history, total_fills_considered, up_fills, down_fills,
                           total_volume, orderbook_history, windows, result>>
       ELSE \E q1 \in {get_orderbook_at(recon, pre_trade_time(fill))} :
            \E oracle_snapshot \in {get_oracle_at(fill.timestamp, oracle)} :
            \E qt \in {quote(quoter[1], q1.snapshot, oracle_snapshot)} :
            \E q2 \in {get_orderbook_at(q1.recon, fill.timestamp)} :
            LET t1 == pre_trade_time(fill)
                orderbook == q1.snapshot
                hit_up == fill.outcome = "up" /\ qt.bid_up # None
                hit_down == ~hit_up /\ fill.outcome = "down" /\ qt.bid_down # None
                matched_up == hit_up /\ fill_hits_bid(fill.price, qt.bid_up[1])
                matched_down == hit_down /\ fill_hits_bid(fill.price, qt.bid_down[1])
                matched == matched_up \/ matched_down
                bid == IF matched_up THEN qt.bid_up[1] ELSE qt.bid_down[1]
                size == IF matched_up THEN matched_size(fill, qt.size_up)
                        ELSE matched_size(fill, qt.size_down)
                new_inventory == IF matched
                                 THEN update_position(inventory[1], fill.outcome, size, bid)
                                 ELSE inventory[1]
                h1 == Observe(History, t1, q1)
            IN  /\ total_fills_considered' = total_fills_considered + 1
                /\ oracle_history' =
                       IF /\ oracle_snapshot # None
                          /\ (oracle_history = <<>>
                                \/ oracle_history[Len(oracle_history)] # oracle_snapshot[1])
                       THEN Append(oracle_history, oracle_snapshot[1])
                       ELSE oracle_history
                /\ inventory' = Some(new_inventory)
                /\ matched_fills' =
                       IF matched
                       THEN Append(matched_fills,
                                   MatchedFill(fill.timestamp, fill.outcome, bid, size, fill))
                       ELSE matched_fills
                /\ up_fills' = up_fills + (IF matched_up THEN 1 ELSE 0)
                /\ down_fills' = down_fills + (IF matched_down THEN 1 ELSE 0)
                /\ total_volume' = total_volume + (IF matched THEN size ELSE 0)
                /\ position_history' =
                       IF records_position(matched)
                       THEN Append(position_history,
                                   from_inventory_and_orderbook(new_inventory, q2.snapshot,
                                                                fill.timestamp))
                       ELSE position_history
                /\ recon' = IF matched THEN q2.recon ELSE q1.recon
                /\ returned' = IF matched THEN q2.snapshot ELSE q1.snapshot
                /\ SetHistory(IF matched THEN Observe(h1, fill.timestamp, q2) ELSE h1)
                /\ step' = [ fill              |-> Some(fill),
                             orderbook         |-> Some(orderbook),
                             oracle_snapshot   |-> oracle_snapshot,
                             quote             |-> Some(qt),
                             matched           |-> matched,
                             current_orderbook |-> IF matched THEN Some(q2.snapshot)
                                                   ELSE step.current_orderbook ]
                /\ UNCHANGED <<raw_data, argVars, pc, result, orderbook_history, windows>>

\* one iteration of the for loop of FillDrivenSimulator.run on the input trade fill
ProcessFill(fill) == idx < MaxFills /\ ConsumeFill(fill)

\* run(), lines 218-242: the final PnL and the result object
final_pnl_from_inventory(history, inv) ==
    [ final_merged_pnl      |-> merged_pnl_of(inv),
      final_directional_pnl |-> IF history = <<>> THEN RInt(0)
                                ELSE history[Len(history)].directional_pnl,
      final_total_pnl       |-> IF history = <<>> THEN merged_pnl_of(inv)
                                ELSE total_pnl(history[Len(history)]) ]

final_pnl(history, inv) ==
    IF history # <<>>
    THEN LET final_state == history[Len(history)]
         IN  [ final_merged_pnl      |-> final_state.merged_pnl,
               final_directional_pnl |-> final_state.directional_pnl,
               final_total_pnl       |-> total_pnl(final_state) ]
    ELSE [ final_merged_pnl |-> RInt(0), final_directional_pnl |-> RInt(0),
           final_total_pnl |-> RInt(0) ]

Return ==
    /\ pc = "loop"
    /\ pc' = "done"
    /\ LET pnl == final_pnl(position_history, inventory[1])
       IN  result' = Some([ final_inventory        |-> inventory[1],
                            position_history       |-> position_history,
                            matched_fills          |-> matched_fills,
                            oracle_history         |-> oracle_history,
                            total_fills_considered |-> total_fills_considered,
                            total_fills_matched    |-> Len(matched_fills),
                            up_fills               |-> up_fills,
                            down_fills             |-> down_fills,
                            total_volume           |-> total_volume,
                            final_merged_pnl       |-> pnl.final_merged_pnl,
                            final_directional_pnl  |-> pnl.final_directional_pnl,
                            final_total_pnl        |-> pnl.final_total_pnl ])
    /\ UNCHANGED <<reconVars, argVars, idx, inventory, position_history, matched_fills,
                   oracle_history, total_fills_considered, up_fills, down_fills, total_volume,
                   orderbook_history, windows, step, sells_seen>>

\* ------------------------------------------------------------------ inputs of the fill-driven run
\* bid-side price changes: a better bid appears, or the best bid of the full book is removed
FdsChanges ==
    {c \in [timestamp : Times, asset_id : {UP_TOKEN, DOWN_TOKEN}, price : {520, 540},
            size : ChangeSizes, side : {"BUY"}] :
        (c.price = 540) <=> (c.size # 0)}

FdsInputs ==
    {RawData(b[1], b[2], b[3], ch) : b \in InitialBooks, ch \in SortedLogs(FdsChanges, 1)}

\* market trades: sells at or above the lowest bid we can quote, and a buy
FillShapes == {<<500, 2>>, <<520, 1>>}

Fills ==
    {RealFill(ps[1], ps[2], "sell", t, o) : ps \in FillShapes, t \in Times, o \in {"up", "down"}}
    \cup {RealFill(520, 1, "buy", t, "up") : t \in Times}

Quoters == {BrainDeadQuoter(20, 1)}

\* no reading at all, and readings of which two share a timestamp
OracleLists ==
    { <<>>,
      <<OracleSnapshot(97000, 97000, 1), OracleSnapshot(97100, 97000, 1),
        OracleSnapshot(97200, 97000, 2)>> }

InitialInventories == {None, Some(Inventory(2, <<400, 1>>, 1, <<450, 1>>))}

FdsInit ==
    /\ raw_data \in FdsInputs
    /\ recon = from_raw_data(raw_data)
    /\ apply_count = [i \in 1 .. Len(raw_data.price_changes) |-> 0]
    /\ max_queried = -1
    /\ last_query = -1
    /\ monotone = TRUE
    /\ calls = 0
    /\ returned = NoSnapshot
    /\ quoter \in {Some(q) : q \in Quoters}
    /\ oracle \in OracleLists
    /\ initial_inventory \in InitialInventories
    \* the trades of this run are drawn one per iteration; no snapshot list is involved
    /\ orderbooks = <<>> /\ fills = <<>> /\ resolution_timestamp = None
    /\ orderbook_history = <<>> /\ windows = <<>>
    /\ RunProlog

FdsLoop == \E fill \in Fills : ProcessFill(fill)

FdsNext == FdsLoop \/ Return

SpecFDS == FdsInit /\ [][FdsNext]_vars

\* ------------------------------------------------------------------ core/models.py: Market, Oracle
RMul(a, b) == Rat(a[1] * b[1], a[2] * b[2])
RDiv(a, b) == IF b[1] > 0 THEN Rat(a[1] * b[2], a[2] * b[1]) ELSE Rat(-(a[1] * b[2]), -(a[2] * b[1]))
RNeg(a) == <<-a[1], a[2]>>
RLess(a, b) == a[1] * b[2] < b[1] * a[2]
RMax(a, b) == IF RLess(a, b) THEN b ELSE a
RMin(a, b) == IF RLess(b, a) THEN b ELSE a

imbalance(inv) ==
    LET total == inv.up_qty + inv.down_qty
    IN  IF total = 0 THEN RInt(0) ELSE Rat(inv.up_qty - inv.down_qty, total)

Market(best_ask_up, best_bid_up, best_ask_down, best_bid_down) ==
    [best_ask_up |-> best_ask_up, best_bid_up |-> best_bid_up,
     best_ask_down |-> best_ask_down, best_bid_down |-> best_bid_down]

Oracle(current_price, threshold) == [current_price |-> current_price, threshold |-> threshold]

\* an exception that leaves a call: the value the call yields instead of a result
ZeroDivisionError == [raised |-> "ZeroDivisionError"]
Raised(v) == "raised" \in DOMAIN v

\* (current_price - threshold) / threshold: Python's division raises for a divisor 0
distance_pct(o) ==
    IF o.threshold = 0 THEN ZeroDivisionError
    ELSE [value |-> RDiv(RInt(o.current_price - o.threshold), RInt(o.threshold))]

\* ------------------------------------------------------------------ core/quoter.py: InventoryMMQuoter
\* amounts of money (base_spread, edge_threshold, min_offset) are in mils; the other parameters
\* are rationals
QuoterParams(oracle_sensitivity, base_spread, p_informed_base, time_decay_minutes, gamma_inv, lambda_size, base_size, edge_threshold, min_offset) ==
    [ oracle_sensitivity |-> oracle_sensitivity, base_spread |-> base_spread,
      p_informed_base |-> p_informed_base, time_decay_minutes |-> time_decay_minutes,
      gamma_inv |-> gamma_inv, lambda_size |-> lambda_size, base_size |-> base_size,
      edge_threshold |-> edge_threshold, min_offset |-> min_offset ]

\* math.exp, to three decimals at the arguments of the table (as the float result is the
\* true value to 53 bits).  Away from the table the model uses a rational of the same sign
\* behaviour (in (0, 1) for x < 0, above 1 for x > 0); the parameter sets of the engine runs
\* have p_informed_base = 0 and lambda_size = 0, so every value of exp that reaches a quote
\* there is exp(0) or is multiplied by 0.
ExpTable ==
    { <<<<-2, 1>>, Rat(135, 1000)>>, <<<<-1, 1>>, Rat(368, 1000)>>,
      <<<<-1, 2>>, Rat(607, 1000)>>, <<<<0, 1>>, RInt(1)>>, <<<<1, 2>>, Rat(1649, 1000)>>,
      <<<<1, 1>>, Rat(2718, 1000)>>, <<<<2, 1>>, Rat(7389, 1000)>> }

exp(x) ==
    IF \E e \in ExpTable : e[1] = x THEN (CHOOSE e \in ExpTable : e[1] = x)[2]
    ELSE IF x[1] < 0 THEN Rat(x[2], x[2] - x[1])
    ELSE Rat(x[2] + x[1], x[2])

calculate_oracle_adjusted_offsets(params, oracle_obj, base_offset) ==
    LET distance == distance_pct(oracle_obj)
        oracle_adj == RScale(ONE, RMul(distance.value, params.oracle_sensitivity))
    IN  IF Raised(distance) THEN distance
        ELSE [ oracle_adj  |-> oracle_adj,
               up_offset   |-> RMax(RInt(params.min_offset), RSub(base_offset, oracle_adj)),
               down_offset |-> RMax(RInt(params.min_offset), RAdd(base_offset, oracle_adj)) ]

\* "p_informed = min(0.8, p_informed)"
cap_p_informed_uncapped(p_informed) == p_informed

cap_p_informed(p_informed) == RMin(<<4, 5>>, p_informed)

\* the division -minutes_to_resolution / time_decay_minutes raises for a divisor 0
calculate_adverse_selection(params, minutes_to_resolution) ==
    LET p_raw == RMul(params.p_informed_base,
                      exp(RNeg(RDiv(minutes_to_resolution, params.time_decay_minutes))))
        p_informed == cap_p_informed(p_raw)
    IN  IF params.time_decay_minutes[1] = 0 THEN ZeroDivisionError
        ELSE [ p_informed |-> p_informed,
               spread     |-> RMul(RInt(params.base_spread),
                                   RAdd(RInt(1), RScale(3, p_informed))) ]

calculate_inventory_skew(params, inv) ==
    LET q == imbalance(inv)
    IN  [ spread_mult_up   |-> RAdd(RInt(1), RMul(params.gamma_inv, q)),
          spread_mult_down |-> RSub(RInt(1), RMul(params.gamma_inv, q)),
          size_up          |-> RScale(params.base_size, exp(RNeg(RMul(params.lambda_size, q)))),
          size_down        |-> RScale(params.base_size, exp(RMul(params.lambda_size, q))) ]

\* "if edge < self.params.edge_threshold"
edge_below_or_at(edge, edge_threshold) == edge <= edge_threshold

edge_below(edge, edge_threshold) == edge < edge_threshold

\* (should_quote, edge, skip_reason); the reason string f"edge {edge:.3f} < threshold {...}"
\* is the pair of the two numbers it prints (a number of mils has three decimals)
check_edge(params, bid, market_ask) ==
    LET edge == market_ask - bid
    IN  IF edge_below(edge, params.edge_threshold)
        THEN [should_quote |-> FALSE, edge |-> edge,
              skip_reason |-> Some([edge |-> edge, threshold |-> params.edge_threshold])]
        ELSE [should_quote |-> TRUE, edge |-> edge, skip_reason |-> None]

mm_quote(params, inv, market, oracle_obj, minutes_to_resolution) ==
    LET adverse == calculate_adverse_selection(params, minutes_to_resolution)
        offsets == calculate_oracle_adjusted_offsets(params, oracle_obj, adverse.spread)
        skew == calculate_inventory_skew(params, inv)
        final_up_offset == RMul(offsets.up_offset, skew.spread_mult_up)
        final_down_offset == RMul(offsets.down_offset, skew.spread_mult_down)
        bid_up == snap_to_tick(RSub(RInt(market.best_bid_up), final_up_offset))
        bid_down == snap_to_tick(RSub(RInt(market.best_bid_down), final_down_offset))
        edge_up == check_edge(params, bid_up, market.best_ask_up)
        edge_down == check_edge(params, bid_down, market.best_ask_down)
        quote_up == edge_up.should_quote
        quote_down == edge_down.should_quote
    IN  IF Raised(adverse) THEN adverse ELSE IF Raised(offsets) THEN offsets ELSE
        [ bid_up      |-> IF quote_up THEN Some(bid_up) ELSE None,
          size_up     |-> IF quote_up THEN round_half_even(skew.size_up[1], skew.size_up[2])
                          ELSE 0,
          bid_down    |-> IF quote_down THEN Some(bid_down) ELSE None,
          size_down   |-> IF quote_down
                          THEN round_half_even(skew.size_down[1], skew.size_down[2])
                          ELSE 0,
          oracle_adj  |-> offsets.oracle_adj,
          raw_up_offset   |-> offsets.up_offset,
          raw_down_offset |-> offsets.down_offset,
          p_informed  |-> adverse.p_informed,
          base_spread |-> adverse.spread,
          inventory_q |-> imbalance(inv),
          spread_mult_up    |-> skew.spread_mult_up,
          spread_mult_down  |-> skew.spread_mult_down,
          final_up_offset   |-> final_up_offset,
          final_down_offset |-> final_down_offset,
          raw_size_up       |-> skew.size_up,
          raw_size_down     |-> skew.size_down,
          edge_up           |-> edge_up.edge,
          edge_down         |-> edge_down.edge,
          skip_reason_up    |-> edge_up.skip_reason,
          skip_reason_down  |-> edge_down.skip_reason ]

\* ------------------------------------------------------------------ simulation/simulator.py: RealDataSimulator
Second == 1000    \* one second on the timestamp grid, whose step is 0.001 s

MaxSnapshots == 2

RECURSIVE bisect_left_loop(_, _, _, _)
bisect_left_loop(a, x, lo, hi) ==
    IF lo < hi
    THEN LET mid == (lo + hi) \div 2
         IN  IF a[mid + 1] < x
             THEN bisect_left_loop(a, x, mid + 1, hi)
             ELSE bisect_left_loop(a, x, lo, mid)
    ELSE lo

bisect_left_as_right(a, x) == bisect_right(a, x)

bisect_left(a, x) == bisect_left_loop(a, x, 0, Len(a))

build_market(snapshot) ==
    Market(OrDefault(best_ask(snapshot.up), 510), OrDefault(best_bid(snapshot.up), 490),
           OrDefault(best_ask(snapshot.down), 510), OrDefault(best_bid(snapshot.down), 490))

build_oracle(timestamp, oracle_data) ==
    IF oracle_data = <<>> THEN Oracle(97000, 97000)
    ELSE LET timestamps == [i \in DOMAIN oracle_data |-> oracle_data[i].timestamp]
             i == oracle_idx(timestamps, timestamp)
             snapshot == IF i < 0 THEN oracle_data[1] ELSE oracle_data[i + 1]
         IN  Oracle(snapshot.price, snapshot.threshold)

\* _get_fills_in_window, lines 155-157: <<start_idx, end_idx>>
window_indices(fs, start_time, end_time) ==
    LET timestamps == [i \in DOMAIN fs |-> fs[i].timestamp]
    IN  <<bisect_left(timestamps, start_time), bisect_left(timestamps, end_time)>>

\* fills[start_idx:end_idx]
get_fills_in_window(fs, start_time, end_time) ==
    LET w == window_indices(fs, start_time, end_time)
    IN  SubSeq(fs, w[1] + 1, w[2])

\* the size a fill takes from what remains of the quoted size
fill_size_uncapped(fill, remaining) == fill.size

fill_size(fill, remaining) == Min(fill.size, remaining)

\* the for loop of _match_fills from position i on
RECURSIVE match_fills_loop(_, _, _, _)
match_fills_loop(fills_in_window, qt, i, acc) ==
    IF i > Len(fills_in_window) THEN acc
    ELSE LET fill == fills_in_window[i]
             on_up == fill.outcome = "up" /\ qt.bid_up # None
             on_down == ~on_up /\ fill.outcome = "down" /\ qt.bid_down # None
             remaining == IF on_up THEN qt.size_up - acc.filled_up
                          ELSE qt.size_down - acc.filled_down
             bid == IF on_up THEN qt.bid_up ELSE qt.bid_down
             hit == /\ is_considered(fill)
                    /\ on_up \/ on_down
                    /\ fill_hits_bid(fill.price, bid[1])
                    /\ remaining > 0
             size == fill_size(fill, remaining)
         IN  IF hit
             THEN match_fills_loop(fills_in_window, qt, i + 1,
                      [ matched     |-> Append(acc.matched,
                                               MatchedFill(fill.timestamp, fill.outcome, bid[1],
                                                           size, fill)),
                        filled_up   |-> acc.filled_up + (IF on_up THEN size ELSE 0),
                        filled_down |-> acc.filled_down + (IF on_up THEN 0 ELSE size) ])
             ELSE match_fills_loop(fills_in_window, qt, i + 1, acc)

match_fills(fills_in_window, qt) ==
    match_fills_loop(fills_in_window, qt, 1, [matched |-> <<>>, filled_up |-> 0, filled_down |-> 0])

\* simulation/models.py: PositionState.from_inventory
from_inventory(inv, timestamp) ==
    [ timestamp        |-> timestamp,
      up_qty           |-> inv.up_qty,
      down_qty         |-> inv.down_qty,
      up_avg           |-> inv.up_avg,
      down_avg         |-> inv.down_avg,
      pairs            |-> pairs(inv),
      combined_avg     |-> combined_avg(inv),
      potential_profit |-> potential_profit(inv) ]

apply_matches_dropped(inv, matched) == inv

RECURSIVE apply_matches(_, _)
apply_matches(inv, matched) ==
    IF matched = <<>> THEN inv
    ELSE apply_matches(update_position(inv, Head(matched).outcome, Head(matched).size,
                                       Head(matched).price),
                       Tail(matched))

\* run(), lines 264-267: the resolution timestamp the loop uses
resolution_of(resolution_arg, books) ==
    IF resolution_arg = None /\ books # <<>>
    THEN Some(books[Len(books)].timestamp + 15 * 60 * Second)
    ELSE resolution_arg

\* run(), lines 287-293; minutes are a rational
minutes_to_resolution_of(resolution, timestamp) ==
    IF resolution # None /\ resolution # Some(0)
    THEN RMax(RInt(0), Rat(resolution[1] - timestamp, 60 * Second))
    ELSE RInt(10)

\* run(), lines 324-327: the inventory a position entry records, the one after the matches
position_inventory_before(inv_before, inv_after) == inv_before

position_inventory(inv_before, inv_after) == inv_after

\* run(), lines 257-271: the state on entry to the for loop over the snapshots
RdsProlog ==
    /\ pc = "rds_loop"
    /\ idx = 0
    /\ inventory = IF initial_inventory = None
                   THEN Some(Inventory(0, <<500, 1>>, 0, <<500, 1>>))
                   ELSE initial_inventory
    /\ position_history = <<>>
    /\ matched_fills = <<>>
    /\ orderbook_history = <<>>
    /\ windows = <<>>
    /\ oracle_history = <<>>
    /\ total_fills_considered = 0
    /\ up_fills = 0
    /\ down_fills = 0
    /\ total_volume = 0
    /\ step = None
    /\ sells_seen = 0
    /\ result = None

\* one iteration of the for loop of RealDataSimulator.run: snapshot number idx (from 0)
ProcessSnapshot ==
    /\ pc = "rds_loop"
    /\ idx < Len(orderbooks)
    /\ LET snapshot == orderbooks[idx + 1]
           market == build_market(snapshot)
           oracle_obj == build_oracle(snapshot.timestamp, oracle)
           minutes_to_resolution ==
               minutes_to_resolution_of(resolution_of(resolution_timestamp, orderbooks),
                                        snapshot.timestamp)
           start_time == snapshot.timestamp
           end_time == IF idx + 1 < Len(orderbooks) THEN orderbooks[idx + 2].timestamp
                       ELSE snapshot.timestamp + 60 * Second
           fills_in_window == get_fills_in_window(fills, start_time, end_time)
       IN  \E qt \in {mm_quote(quoter[1], inventory[1], market, oracle_obj, minutes_to_resolution)} :
           IF Raised(qt)
           THEN \* the exception leaves run(): no result object, the locals are dropped
                /\ pc' = "rds_raised"
                /\ result' = Some(qt)
                /\ UNCHANGED <<idx, inventory, matched_fills, position_history,
                               orderbook_history, windows, step>>
           ELSE \E m \in {match_fills(fills_in_window, qt)} :
                \E new_inventory \in {apply_matches(inventory[1], m.matched)} :
                /\ pc' = pc
                /\ result' = result
                /\ idx' = idx + 1
                /\ orderbook_history' =
                       Append(orderbook_history,
                              [ timestamp     |-> snapshot.timestamp,
                                best_ask_up   |-> OrDefault(best_ask(snapshot.up), 500),
                                best_ask_down |-> OrDefault(best_ask(snapshot.down), 500) ])
                /\ windows' = Append(windows, window_indices(fills, start_time, end_time))
                /\ inventory' = Some(new_inventory)
                /\ matched_fills' = matched_fills \o m.matched
                /\ position_history' =
                       Append(position_history,
                              from_inventory(position_inventory(inventory[1], new_inventory),
                                             snapshot.timestamp))
                /\ step' = Some([ snapshot              |-> snapshot,
                                  market                |-> market,
                                  oracle_obj            |-> oracle_obj,
                                  minutes_to_resolution |-> minutes_to_resolution,
                                  quote                 |-> qt,
                                  start_time            |-> start_time,
                                  end_time              |-> end_time,
                                  fills_in_window       |-> fills_in_window,
                                  matched               |-> m.matched,
                                  filled_up             |-> m.filled_up,
                                  filled_down           |-> m.filled_down ])
    /\ UNCHANGED <<reconVars, argVars, oracle_history, total_fills_considered, up_fills,
                   down_fills, total_volume, sells_seen>>

RECURSIVE CountOutcome(_, _)
CountOutcome(matched, outcome) ==
    IF matched = <<>> THEN 0
    ELSE (IF Head(matched).outcome = outcome THEN 1 ELSE 0) + CountOutcome(Tail(matched), outcome)

RECURSIVE SumSizes(_)
SumSizes(matched) == IF matched = <<>> THEN 0 ELSE Head(matched).size + SumSizes(Tail(matched))

\* run(), lines 329-350: the summary statistics and the result object
RdsReturn ==
    /\ pc = "rds_loop"
    /\ idx = Len(orderbooks)
    /\ pc' = "rds_done"
    /\ up_fills' = CountOutcome(matched_fills, "up")
    /\ down_fills' = CountOutcome(matched_fills, "down")
    /\ total_volume' = SumSizes(matched_fills)
    /\ result' = Some([ final_inventory     |-> inventory[1],
                        position_history    |-> position_history,
                        matched_fills       |-> matched_fills,
                        orderbook_history   |-> orderbook_history,
                        total_fills         |-> Len(matched_fills),
                        up_fills            |-> up_fills',
                        down_fills          |-> down_fills',
                        total_volume        |-> total_volume',
                        final_pnl_potential |-> RScale(pairs(inventory[1]),
                                                       potential_profit(inventory[1])),
                        params              |-> quoter[1] ])
    /\ UNCHANGED <<reconVars, argVars, idx, inventory, position_history, matched_fills,
                   oracle_history, total_fills_considered, orderbook_history, windows, step, sells_seen>>

\* ------------------------------------------------------------------ inputs of the snapshot-driven run
SnapshotBook(raw) ==
    [ bids |-> {raw.bids[i] : i \in DOMAIN raw.bids}, asks |-> {raw.asks[i] : i \in DOMAIN raw.asks} ]

OrderbookSnapshot(t, up, down) == [timestamp |-> t, up |-> up, down |-> down]

Snapshots ==
    {OrderbookSnapshot(t, SnapshotBook(b[1]), SnapshotBook(b[2])) :
        t \in {0, MaxTime}, b \in {<<FullBook, FullBook>>, <<EmptyBook, FullBook>>}}

\* sells at the bid quoted on the full book, smaller than and as large as the quoted size, a buy,
\* and a sell 60 s after time 0
RdsFills ==
    {RealFill(500, 2, "sell", t, o) : t \in Times, o \in {"up", "down"}}
    \cup {RealFill(500, 3, "sell", 0, "up"), RealFill(500, 1, "buy", 0, "up")}
    \cup {RealFill(500, 2, "sell", 60 * Second, "up")}

\* the other arguments of run(): oracle, initial_inventory, resolution_timestamp
RdsArgs ==
    { <<OracleSnapshot(97000, 97000, 1), OracleSnapshot(97100, 97000, 2)>> }
        \X {None} \X {None}
    \cup {<<>>} \X {Some(Inventory(2, <<400, 1>>, 1, <<450, 1>>))} \X {Some(0)}
    \cup { <<OracleSnapshot(97000, 0, 0)>> } \X {None} \X {None}

\* p_informed_base = 0 and lambda_size = 0: see exp
RdsQuoters ==
    {QuoterParams(RInt(5), 20, RInt(0), RInt(5), <<1, 2>>, RInt(0), 3, 10, 10)}

RdsInit ==
    /\ raw_data = RawData(EmptyBook, EmptyBook, 0, <<>>)
    /\ recon = from_raw_data(raw_data)
    /\ apply_count = <<>>
    /\ max_queried = -1
    /\ last_query = -1
    /\ monotone = TRUE
    /\ calls = 0
    /\ returned = NoSnapshot
    /\ quoter \in {Some(q) : q \in RdsQuoters}
    /\ \E args \in RdsArgs :
           /\ oracle = args[1]
           /\ initial_inventory = args[2]
           /\ resolution_timestamp = args[3]
    /\ orderbooks \in SortedLogs(Snapshots, MaxSnapshots)
    /\ fills \in SortedLogs(RdsFills, MaxFills)
    /\ RdsProlog

RdsNext == ProcessSnapshot \/ RdsReturn

SpecRDS == RdsInit /\ [][RdsNext]_vars

\* either engine runs
EnginesInit == FdsInit \/ RdsInit

EnginesNext == FdsNext \/ RdsNext

SpecEngines == EnginesInit /\ [][EnginesNext]_vars

\* ------------------------------------------------------------------ claims on the reconstructor
SortedLog == sorted_by_timestamp(raw_data.price_changes)
Tokens == {UP_TOKEN, DOWN_TOKEN}
BookSides == {"bids", "asks"}
LogPrices == {SortedLog[i].price : i \in DOMAIN SortedLog}

\* the levels an initial snapshot lists for a token and side
InitialLevels(tok, s) ==
    LET l == raw_data.initial_snapshots[tok][s] IN {l[i] : i \in DOMAIN l}

\* the levels of a returned snapshot for a token and side
ReturnedLevels(snap, tok, s) == IF tok = UP_TOKEN THEN snap.up[s] ELSE snap.down[s]

Addresses(c, tok, s, p) ==
    /\ c.asset_id = tok
    /\ c.price = p
    /\ (s = "bids") <=> (Lower(c.side) = "buy")

\* the book at time T by the level-replacement rule: a level is what the last delta with
\* timestamp <= T that names it says (size 0: no level), or the initial level if there is none
ReferenceLevels(tok, s, T) ==
    LET last(p) ==
            {i \in DOMAIN SortedLog :
                /\ SortedLog[i].timestamp <= T
                /\ Addresses(SortedLog[i], tok, s, p)
                /\ \A j \in DOMAIN SortedLog :
                      (j > i /\ SortedLog[j].timestamp <= T) => ~Addresses(SortedLog[j], tok, s, p)}
        untouched == {l \in InitialLevels(tok, s) : last(l.price) = {}}
        replaced == {[price |-> SortedLog[i].price, size |-> SortedLog[i].size] :
                        i \in {k \in UNION {last(p) : p \in LogPrices} : SortedLog[k].size # 0}}
    IN  untouched \cup replaced

\* C1: over any sequence of get_orderbook_at calls (any order), no delta of the sorted log is
\* applied more than once, the deltas applied so far are exactly those with timestamp <= the
\* largest timestamp queried so far, and _last_processed_idx never decreases.
C1_AppliedState ==
    \A i \in DOMAIN apply_count :
        /\ apply_count[i] <= 1
        /\ (apply_count[i] = 1) <=> (SortedLog[i].timestamp <= max_queried)

C1_EachDeltaAppliedOnce ==
    /\ [](C1_AppliedState)
    /\ [][recon'.last_processed_idx >= recon.last_processed_idx]_vars

C1_Witness ==
    /\ last_query >= 0
    /\ last_query < max_queried
    /\ \E i, j \in DOMAIN apply_count : apply_count[i] = 1 /\ apply_count[j] = 0

\* C2: after non-decreasing queries on a fresh instance, the snapshot returned for T holds, for
\* each outcome and side, exactly the levels given by the level-replacement rule applied to the
\* initial snapshot and the deltas with timestamp <= T (size 0 removes, nonzero replaces).
C2_MonotoneQueriesMatchReference ==
    (monotone /\ calls > 0) =>
        \A tok \in Tokens, s \in BookSides :
            ReturnedLevels(returned, tok, s) = ReferenceLevels(tok, s, last_query)

C2_Witness ==
    /\ monotone
    /\ calls = 2
    /\ raw_data.initial_snapshots[UP_TOKEN].bids = FullBook.bids
    /\ [price |-> 520, size |-> 2] \in returned.up.bids
    /\ [price |-> 500, size |-> 2] \in returned.up.bids
    /\ returned.up.asks = {[price |-> 540, size |-> 1]}
    /\ ~(\E l \in returned.down.bids : l.price = 520)
    /\ recon.last_processed_idx = 1

\* C3 (as stated): on a fresh reconstructor the first query, made at initial_timestamp, returns
\* exactly the levels of the initial snapshot, whatever the delta log.
FirstQueryAtInitialTimestamp ==
    calls = 1 /\ last_query = recon.initial_timestamp

ReturnsInitialSnapshot ==
    \A tok \in Tokens, s \in BookSides : ReturnedLevels(returned, tok, s) = InitialLevels(tok, s)

C3_RoundTripAnyLog == FirstQueryAtInitialTimestamp => ReturnsInitialSnapshot

\* C3 (amended): the same, provided no delta of the log is stamped at or before
\* initial_timestamp (such deltas are applied by that query).
NoDeltaUpToInitialTimestamp ==
    \A i \in DOMAIN SortedLog : SortedLog[i].timestamp > recon.initial_timestamp

C3_RoundTripBeforeDeltas ==
    (FirstQueryAtInitialTimestamp /\ NoDeltaUpToInitialTimestamp) => ReturnsInitialSnapshot

C3_Witness ==
    /\ FirstQueryAtInitialTimestamp
    /\ NoDeltaUpToInitialTimestamp
    /\ Len(SortedLog) = 2
    /\ recon.initial_timestamp = 1
    /\ returned.down.bids # {}

\* ------------------------------------------------------------------ claims on the fill-driven run
InLoopOrDone == pc \in {"loop", "done"}

\* the latest iteration handled a trade the loop considers (a sell): step holds its quote
AfterSell == InLoopOrDone /\ step.fill # None /\ step.fill[1].side = "sell"

\* the bid the latest quote holds for the outcome of the latest trade
StepBid ==
    IF step.fill[1].outcome = "up" THEN step.quote[1].bid_up ELSE step.quote[1].bid_down

StepQuotedSize ==
    IF step.fill[1].outcome = "up" THEN step.quote[1].size_up ELSE step.quote[1].size_down

\* an iteration of the loop has just run on a buy / on a sell
BuyIteration == idx' = idx + 1 /\ step'.fill[1].side = "buy"
SellIteration == idx' = idx + 1 /\ step'.fill[1].side = "sell"

StartInventory ==
    IF initial_inventory = None THEN Inventory(0, <<500, 1>>, 0, <<500, 1>>)
    ELSE initial_inventory[1]

RECURSIVE SizeIn(_, _)
SizeIn(s, outcome) ==
    IF s = <<>> THEN 0
    ELSE (IF Head(s).outcome = outcome THEN Head(s).size ELSE 0) + SizeIn(Tail(s), outcome)

RECURSIVE CostIn(_, _)
CostIn(s, outcome) ==
    IF s = <<>> THEN 0
    ELSE (IF Head(s).outcome = outcome THEN Head(s).size * Head(s).price ELSE 0)
             + CostIn(Tail(s), outcome)

MatchedSize(outcome) == SizeIn(matched_fills, outcome)

MatchedCost(outcome) == CostIn(matched_fills, outcome)

\* C4: total_fills_considered is the number of input trades with side == sell, matched or not,
\* and an iteration on a buy trade changes nothing: no counter, inventory or history list, no
\* quote and no reconstructor query.
C4_CountsSells ==
    InLoopOrDone =>
        /\ total_fills_considered = sells_seen
        /\ pc = "done" => result[1].total_fills_considered = sells_seen

C4_BuyHasNoEffect ==
    BuyIteration =>
        /\ UNCHANGED <<reconVars, inventory, position_history, matched_fills, oracle_history,
                       total_fills_considered, up_fills, down_fills, total_volume>>
        /\ step'.quote = step.quote
        /\ step'.orderbook = step.orderbook

C4_OnlySellsConsidered == [](C4_CountsSells) /\ [][C4_BuyHasNoEffect]_vars

C4_Witness ==
    /\ pc = "done"
    /\ idx = 2
    /\ sells_seen = 1
    /\ step.fill[1].side = "buy"
    /\ Len(matched_fills) = 1

\* C5: a sell of outcome X matches iff its quote has a non-null bid for X and trade.price <= bid;
\* a match records the trade's full size (whatever the quoted size) and updates the inventory by
\* (X, trade.size) at the quote's bid; a sell that does not match changes neither.
C5_MatchIffPriceAtOrBelowBid ==
    AfterSell =>
        /\ step.matched <=> (StepBid # None /\ step.fill[1].price <= StepBid[1])
        /\ step.matched =>
              matched_fills[Len(matched_fills)] =
                  MatchedFill(step.fill[1].timestamp, step.fill[1].outcome, StepBid[1],
                              step.fill[1].size, step.fill[1])

C5_MatchUpdatesInventory ==
    SellIteration =>
        LET f == step'.fill[1]
            q == step'.quote[1]
            bid == IF f.outcome = "up" THEN q.bid_up ELSE q.bid_down
        IN  IF step'.matched
            THEN /\ inventory' = Some(update_position(inventory[1], f.outcome, f.size, bid[1]))
                 /\ Len(matched_fills') = Len(matched_fills) + 1
            ELSE UNCHANGED <<inventory, matched_fills>>

C5_MatchingRule == [](C5_MatchIffPriceAtOrBelowBid) /\ [][C5_MatchUpdatesInventory]_vars

C5_Witness ==
    /\ AfterSell
    /\ step.matched
    /\ step.fill[1].size > StepQuotedSize
    /\ step.fill[1].price < StepBid[1]

\* C6: in both engines every recorded matched fill refers to an input trade with side == sell
\* and the same outcome, its recorded price is our bid for that outcome, and the original
\* trade's price is <= the recorded price.
IsSellAtOrBelowRecordedPrice(mf) ==
    /\ mf.original_fill.side = "sell"
    /\ mf.original_fill.outcome = mf.outcome
    /\ mf.original_fill.price <= mf.price

C6_MatchedFillsAreSells ==
    /\ \A k \in DOMAIN matched_fills : IsSellAtOrBelowRecordedPrice(matched_fills[k])
    /\ pc \in {"done", "rds_done"} =>
          \A k \in DOMAIN result[1].matched_fills :
              IsSellAtOrBelowRecordedPrice(result[1].matched_fills[k])

\* the matches an iteration appends carry the bid of that iteration's quote and one of its trades
C6_NewMatchesAtOurBid ==
    /\ Len(matched_fills') >= Len(matched_fills)
    /\ SubSeq(matched_fills', 1, Len(matched_fills)) = matched_fills
    /\ \A k \in (Len(matched_fills) + 1) .. Len(matched_fills') :
          LET mf == matched_fills'[k]
              qt == IF pc = "loop" THEN step'.quote[1] ELSE step'[1].quote
              bid == IF mf.outcome = "up" THEN qt.bid_up ELSE qt.bid_down
          IN  /\ bid # None
              /\ mf.price = bid[1]
              /\ IF pc = "loop" THEN mf.original_fill = step'.fill[1]
                 ELSE \E i \in DOMAIN fills : fills[i] = mf.original_fill

RECURSIVE InventoryAfter(_)
InventoryAfter(k) ==
    IF k = 0 THEN StartInventory
    ELSE update_position(InventoryAfter(k - 1), matched_fills[k].outcome, matched_fills[k].size,
                         matched_fills[k].price)

C7_OneEntryPerMatch ==
    InLoopOrDone =>
        /\ Len(position_history) = Len(matched_fills)
        /\ up_fills + down_fills = Len(matched_fills)
        /\ total_volume = MatchedSize("up") + MatchedSize("down")
        /\ \A k \in DOMAIN position_history :
              /\ position_history[k].timestamp = matched_fills[k].timestamp
              /\ Inventory(position_history[k].up_qty, position_history[k].up_avg,
                           position_history[k].down_qty, position_history[k].down_avg)
                    = InventoryAfter(k)
        /\ pc = "done" =>
              /\ result[1].total_fills_matched = Len(result[1].matched_fills)
              /\ result[1].total_fills_matched = Len(result[1].position_history)
              /\ result[1].total_fills_matched = result[1].up_fills + result[1].down_fills
              /\ result[1].matched_fills = matched_fills
              /\ result[1].position_history = position_history
              /\ result[1].total_volume = total_volume

C7_Witness ==
    /\ pc = "done"
    /\ sells_seen = 2
    /\ Len(matched_fills) = 1
    /\ Len(position_history) = 1
    /\ step.matched = FALSE

\* C8: for each outcome the inventory quantity is the initial quantity plus the matched sizes of
\* that outcome, and qty * avg is the initial qty * avg plus the sum of size * our bid; quantities
\* never decrease and the caller's initial_inventory is not modified.
C8_InventoryIsSumOfMatches ==
    InLoopOrDone =>
        LET inv == IF pc = "done" THEN result[1].final_inventory ELSE inventory[1]
        IN  /\ inv.up_qty = StartInventory.up_qty + MatchedSize("up")
            /\ inv.down_qty = StartInventory.down_qty + MatchedSize("down")
            /\ REq(RScale(inv.up_qty, inv.up_avg),
                   RAdd(RScale(StartInventory.up_qty, StartInventory.up_avg),
                        RInt(MatchedCost("up"))))
            /\ REq(RScale(inv.down_qty, inv.down_avg),
                   RAdd(RScale(StartInventory.down_qty, StartInventory.down_avg),
                        RInt(MatchedCost("down"))))

C8_QuantitiesNeverDecrease ==
    (pc = "loop") =>
        /\ inventory'[1].up_qty >= inventory[1].up_qty
        /\ inventory'[1].down_qty >= inventory[1].down_qty
        /\ initial_inventory' = initial_inventory

C8_InventoryAccounting == [](C8_InventoryIsSumOfMatches) /\ [][C8_QuantitiesNeverDecrease]_vars

C8_Witness ==
    /\ pc = "done"
    /\ initial_inventory # None
    /\ up_fills = 2
    /\ matched_fills[1].size # matched_fills[2].size
    /\ matched_fills[1].price # matched_fills[2].price

\* C9 (as stated): for fills sorted by timestamp, the quote for every considered sell is the one
\* computed from the pre-trade book, the book reflecting exactly the deltas with
\* timestamp <= trade.timestamp - epsilon, also when several trades share a timestamp.
ReferenceSnapshot(T) ==
    [ up        |-> [bids |-> ReferenceLevels(UP_TOKEN, "bids", T),
                     asks |-> ReferenceLevels(UP_TOKEN, "asks", T)],
      down      |-> [bids |-> ReferenceLevels(DOWN_TOKEN, "bids", T),
                     asks |-> ReferenceLevels(DOWN_TOKEN, "asks", T)],
      timestamp |-> T ]

PreTradeQuote ==
    quote(quoter[1], ReferenceSnapshot(step.fill[1].timestamp - Epsilon), step.oracle_snapshot)

C9_QuoteFromPreTradeBook ==
    AfterSell =>
        StepBid = (IF step.fill[1].outcome = "up" THEN PreTradeQuote.bid_up
                   ELSE PreTradeQuote.bid_down)

\* C10 (as stated): in every run, also one in which no fill matches, final_merged_pnl is
\* final_inventory.pairs * (1 - final_inventory.combined_avg) and final_total_pnl is
\* final_merged_pnl + final_directional_pnl.
TotalIsMergedPlusDirectional ==
    REq(result[1].final_total_pnl,
        RAdd(result[1].final_merged_pnl, result[1].final_directional_pnl))

MergedFromFinalInventory ==
    REq(result[1].final_merged_pnl, merged_pnl_of(result[1].final_inventory))

BestBidAt(tok, T) ==
    LET levels == ReferenceLevels(tok, "bids", T)
    IN  IF levels = {} THEN 0 ELSE SetMax({l.price : l \in levels})

PositionSnapshotOk(ps) ==
    /\ REq(ps.merged_pnl, RScale(ps.pairs, RSub(RInt(ONE), ps.combined_avg)))
    /\ ps.pairs = Min(ps.up_qty, ps.down_qty)
    /\ REq(ps.combined_avg, RAdd(ps.up_avg, ps.down_avg))
    /\ (ps.excess_side = "up") <=> (ps.up_qty > ps.down_qty)
    /\ (ps.excess_side = "down") <=> (ps.down_qty > ps.up_qty)
    /\ ps.excess_side \in {"up", "down", "balanced"}
    /\ ps.directional_qty = Abs(ps.up_qty - ps.down_qty)
    /\ ps.excess_side = "balanced" =>
          /\ ps.directional_market_price = 0
          /\ REq(ps.directional_avg_cost, RInt(0))
          /\ REq(ps.directional_pnl, RInt(0))
    /\ ps.excess_side = "up" =>
          /\ ps.directional_market_price = BestBidAt(UP_TOKEN, ps.timestamp)
          /\ REq(ps.directional_avg_cost, ps.up_avg)
    /\ ps.excess_side = "down" =>
          /\ ps.directional_market_price = BestBidAt(DOWN_TOKEN, ps.timestamp)
          /\ REq(ps.directional_avg_cost, ps.down_avg)
    /\ REq(ps.directional_pnl,
           RScale(ps.directional_qty,
                  RSub(RInt(ps.directional_market_price), ps.directional_avg_cost)))
    /\ REq(total_pnl(ps), RAdd(ps.merged_pnl, ps.directional_pnl))

C11_PositionSnapshotFigures ==
    InLoopOrDone => \A k \in DOMAIN position_history : PositionSnapshotOk(position_history[k])

\* a down-heavy snapshot marked at a non-zero bid, followed by a balanced one holding pairs
C11_Witness ==
    /\ pc = "done"
    /\ Len(position_history) = 2
    /\ position_history[1].excess_side = "down"
    /\ position_history[1].directional_market_price # 0
    /\ position_history[2].excess_side = "balanced"
    /\ position_history[2].pairs > 0

\* ------------------------------------------------------------------ claims on the snapshot-driven run
AfterSnapshot == pc \in {"rds_loop", "rds_done"} /\ step # None

WindowBid(outcome) == IF outcome = "up" THEN step[1].quote.bid_up ELSE step[1].quote.bid_down

WindowSize(outcome) == IF outcome = "up" THEN step[1].quote.size_up ELSE step[1].quote.size_down

\* trade i of the latest window could hit our quote: a sell at or below a non-null bid
Eligible(i) ==
    LET f == step[1].fills_in_window[i]
    IN  /\ f.side = "sell"
        /\ WindowBid(f.outcome) # None
        /\ f.price <= WindowBid(f.outcome)[1]

RECURSIVE SumOfSizes(_, _)
SumOfSizes(fs, I) ==
    IF I = {} THEN 0
    ELSE LET i == CHOOSE j \in I : TRUE IN fs[i].size + SumOfSizes(fs, I \ {i})

\* what the eligible trades of trade i's side before i offered in total
OfferedBefore(i) ==
    LET fs == step[1].fills_in_window
    IN  SumOfSizes(fs, {j \in 1 .. (i - 1) : Eligible(j) /\ fs[j].outcome = fs[i].outcome})

\* filling in list order, each trade up to what remains of the quoted size
TakenBy(i) ==
    LET f == step[1].fills_in_window[i]
        quoted == WindowSize(f.outcome)
    IN  IF Eligible(i)
        THEN Min(quoted, OfferedBefore(i) + f.size) - Min(quoted, OfferedBefore(i))
        ELSE 0

RECURSIVE ExpectedMatches(_)
ExpectedMatches(n) ==
    IF n = 0 THEN <<>>
    ELSE LET f == step[1].fills_in_window[n]
         IN  IF TakenBy(n) > 0
             THEN Append(ExpectedMatches(n - 1),
                         MatchedFill(f.timestamp, f.outcome, WindowBid(f.outcome)[1],
                                     TakenBy(n), f))
             ELSE ExpectedMatches(n - 1)

\* C12: in every snapshot window and for each side the matched sizes sum to at most the quoted
\* size; trades fill in list order, each up to the remaining quoted size, and once the quoted
\* size is exhausted later trades of that side match nothing.
C12_WindowFillsCappedInOrder ==
    AfterSnapshot =>
        /\ SizeIn(step[1].matched, "up") <= step[1].quote.size_up
        /\ SizeIn(step[1].matched, "down") <= step[1].quote.size_down
        /\ step[1].filled_up = SizeIn(step[1].matched, "up")
        /\ step[1].filled_down = SizeIn(step[1].matched, "down")
        /\ step[1].matched = ExpectedMatches(Len(step[1].fills_in_window))

\* a window whose second trade is cut to what the first left, which exhausts the quoted size
C12_Witness ==
    /\ AfterSnapshot
    /\ Len(step[1].fills_in_window) = 2
    /\ Eligible(1) /\ Eligible(2)
    /\ Len(step[1].matched) = 2
    /\ step[1].matched[2].size < step[1].matched[2].original_fill.size
    /\ step[1].filled_up = step[1].quote.size_up

\* a window whose first trade takes the whole quoted size: the second, eligible, matches nothing
C12_ExhaustedWitness ==
    /\ AfterSnapshot
    /\ Len(step[1].fills_in_window) = 2
    /\ Eligible(1) /\ Eligible(2)
    /\ Len(step[1].matched) = 1

\* C13: with snapshots and fills sorted by timestamp, the window of snapshot k is
\* [snapshots[k].timestamp, snapshots[k+1].timestamp), and [last, last + 60 s) for the final
\* snapshot; every trade is tested in at most one window, the one of the highest-index snapshot
\* stamped at or before the trade, and a trade before the first snapshot or 60 s or more after
\* the last one is never matched.
WindowStart(k) == orderbooks[k].timestamp

WindowEnd(k) ==
    IF k < Len(orderbooks) THEN orderbooks[k + 1].timestamp
    ELSE orderbooks[k].timestamp + 60 * Second

\* the positions (from 1) in fills of the trades tested in the window of snapshot k
TestedIn(k) == (windows[k][1] + 1) .. windows[k][2]

\* the snapshot a trade belongs to: the highest-index one stamped at or before it (0: none)
OwnerOf(i) ==
    LET S == {k \in DOMAIN orderbooks : orderbooks[k].timestamp <= fills[i].timestamp}
    IN  IF S = {} THEN 0 ELSE SetMax(S)

C13_WindowsPartitionTrades ==
    pc \in {"rds_loop", "rds_done"} =>
        /\ Len(windows) = idx
        /\ \A k \in DOMAIN windows :
              TestedIn(k) = {i \in DOMAIN fills : /\ WindowStart(k) <= fills[i].timestamp
                                                  /\ fills[i].timestamp < WindowEnd(k)}
        /\ \A i \in DOMAIN fills :
              /\ Cardinality({k \in DOMAIN windows : i \in TestedIn(k)}) <= 1
              /\ \A k \in DOMAIN windows : i \in TestedIn(k) => k = OwnerOf(i)
              /\ (OwnerOf(i) \in DOMAIN windows
                     /\ fills[i].timestamp < orderbooks[Len(orderbooks)].timestamp + 60 * Second)
                    => i \in TestedIn(OwnerOf(i))
        /\ step # None =>
              /\ step[1].start_time = WindowStart(idx)
              /\ step[1].end_time = WindowEnd(idx)
              /\ step[1].fills_in_window = [j \in 1 .. Cardinality(TestedIn(idx)) |->
                                               fills[windows[idx][1] + j]]
        /\ \A m \in DOMAIN matched_fills :
              /\ matched_fills[m].original_fill.timestamp >= orderbooks[1].timestamp
              /\ matched_fills[m].original_fill.timestamp
                     < orderbooks[Len(orderbooks)].timestamp + 60 * Second

\* two snapshots with the same timestamp: the first window is empty, the trade stamped at
\* that time is tested in the second one, and the trade exactly 60 s later is tested nowhere
C13_Witness ==
    /\ pc = "rds_done"
    /\ Len(orderbooks) = 2
    /\ orderbooks[1].timestamp = orderbooks[2].timestamp
    /\ Len(fills) = 2
    /\ fills[1].timestamp = orderbooks[2].timestamp
    /\ fills[2].timestamp = orderbooks[2].timestamp + 60 * Second
    /\ TestedIn(1) = {}
    /\ TestedIn(2) = {1}
    /\ Len(matched_fills) = 1

\* a trade that precedes the first snapshot is tested nowhere
C13_BeforeFirstWitness ==
    /\ pc = "rds_done"
    /\ Len(orderbooks) = 2
    /\ Len(fills) = 2
    /\ fills[1].timestamp < orderbooks[1].timestamp
    /\ TestedIn(1) = {}
    /\ TestedIn(2) = {2}

\* a trade stamped exactly at the second snapshot is tested in that snapshot's window only
C13_BoundaryWitness ==
    /\ pc = "rds_done"
    /\ Len(orderbooks) = 2
    /\ orderbooks[1].timestamp < orderbooks[2].timestamp
    /\ Len(fills) = 2
    /\ fills[2].timestamp = orderbooks[2].timestamp
    /\ TestedIn(1) = {1}
    /\ TestedIn(2) = {2}
    /\ Len(matched_fills) = 2

\* C14: one quote is generated per snapshot, from the inventory held before any match of that
\* window is applied, and every trade of the window is tested against that quote; the matches
\* of a window change the quotes of later snapshots only.
SnapshotIteration == pc = "rds_loop" /\ idx' = idx + 1

\* the quote of the snapshot being processed, from the inventory that results from the matches
\* of the earlier windows
QuoteBeforeWindow ==
    LET snapshot == orderbooks[idx + 1]
    IN  mm_quote(quoter[1], InventoryAfter(Len(matched_fills)), build_market(snapshot),
                 build_oracle(snapshot.timestamp, oracle),
                 minutes_to_resolution_of(resolution_of(resolution_timestamp, orderbooks),
                                          snapshot.timestamp))

C14_QuoteFromInventoryBeforeWindow ==
    SnapshotIteration =>
        /\ step'[1].quote = QuoteBeforeWindow
        /\ inventory[1] = InventoryAfter(Len(matched_fills))

C14_WindowTestedAgainstOneQuote ==
    AfterSnapshot =>
        /\ step[1].matched = ExpectedMatches(Len(step[1].fills_in_window))
        /\ \A k \in DOMAIN step[1].matched :
              Some(step[1].matched[k].price) = WindowBid(step[1].matched[k].outcome)
        /\ inventory[1] = InventoryAfter(Len(matched_fills))

C14_OneQuotePerSnapshot ==
    [](C14_WindowTestedAgainstOneQuote) /\ [][C14_QuoteFromInventoryBeforeWindow]_vars

\* two trades of one window match at the same bid although the first changes the inventory, and
\* the next snapshot, on an identical book, is quoted lower on that side
C14_Witness ==
    /\ AfterSnapshot
    /\ idx = 2
    /\ orderbooks[1].up = orderbooks[2].up
    /\ Len(matched_fills) >= 2
    /\ matched_fills[1].outcome = "up" /\ matched_fills[2].outcome = "up"
    /\ matched_fills[1].price = matched_fills[2].price
    /\ windows[1][2] - windows[1][1] = 2
    /\ step[1].quote.bid_up # None
    /\ step[1].quote.bid_up[1] < matched_fills[1].price

\* C15: position_history has one entry per input snapshot, in order; entry i carries
\* snapshots[i].timestamp and the inventory after all matches of windows 0..i; total_fills ==
\* up_fills + down_fills == len(matched_fills), total_volume is the sum of the matched sizes, and
\* with no fills the final inventory is the initial one.
\* the number of matches made in the windows up to that of snapshot i
MatchesThrough(i) ==
    Cardinality({m \in DOMAIN matched_fills :
                    matched_fills[m].original_fill.timestamp < WindowEnd(i)})

InventoryFields(ps) == Inventory(ps.up_qty, ps.up_avg, ps.down_qty, ps.down_avg)

C15_OneEntryPerSnapshot ==
    pc \in {"rds_loop", "rds_done"} =>
        /\ Len(position_history) = idx
        /\ \A i \in DOMAIN position_history :
              /\ position_history[i].timestamp = orderbooks[i].timestamp
              /\ InventoryFields(position_history[i]) = InventoryAfter(MatchesThrough(i))
              /\ position_history[i].pairs = pairs(InventoryAfter(MatchesThrough(i)))
        /\ pc = "rds_done" =>
              /\ result[1].position_history = position_history
              /\ Len(result[1].position_history) = Len(orderbooks)
              /\ result[1].total_fills = Len(result[1].matched_fills)
              /\ result[1].total_fills = result[1].up_fills + result[1].down_fills
              /\ result[1].up_fills = Cardinality({m \in DOMAIN matched_fills :
                                                      matched_fills[m].outcome = "up"})
              /\ result[1].total_volume = MatchedSize("up") + MatchedSize("down")
              /\ result[1].final_inventory = InventoryAfter(Len(matched_fills))
              /\ fills = <<>> => result[1].final_inventory = StartInventory

\* two snapshots, a match in each window, on both outcomes
C15_Witness ==
    /\ pc = "rds_done"
    /\ Len(orderbooks) = 2
    /\ Len(matched_fills) = 2
    /\ MatchesThrough(1) = 1
    /\ result[1].up_fills = 1
    /\ result[1].down_fills = 1
    /\ initial_inventory # None

\* a run without fills over two snapshots from a given inventory
C15_NoFillsWitness ==
    /\ pc = "rds_done"
    /\ fills = <<>>
    /\ Len(orderbooks) = 2
    /\ initial_inventory # None
    /\ result[1].final_inventory = initial_inventory[1]

\* C16 (as stated): for every snapshot the quoter is called with
\* minutes_to_resolution = max(0, (resolution_timestamp - snapshot.timestamp) / 60), where
\* resolution_timestamp is the caller's argument when one is given, whatever its value, 0
\* included, and otherwise the final snapshot's timestamp plus 900 seconds.
ResolutionTimestamp ==
    IF resolution_timestamp # None THEN resolution_timestamp[1]
    ELSE orderbooks[Len(orderbooks)].timestamp + 900 * Second

C16_MinutesToResolution ==
    AfterSnapshot =>
        step[1].minutes_to_resolution =
            RMax(RInt(0), Rat(ResolutionTimestamp - step[1].snapshot.timestamp, 60 * Second))

\* the same restricted to runs whose resolution timestamp is not 0: the formula holds there
C16_MinutesToResolutionNonZero ==
    (AfterSnapshot /\ ResolutionTimestamp # 0) =>
        step[1].minutes_to_resolution =
            RMax(RInt(0), Rat(ResolutionTimestamp - step[1].snapshot.timestamp, 60 * Second))

\* ------------------------------------------------------------------ claims on the oracle lookup
\* the indices (1-based) of the readings at or before t
ReadingsUpTo(t) == {i \in DOMAIN oracle : oracle[i].timestamp <= t}

\* the reading the lookup is to use at t, for a non-empty oracle list
ReadingFor(t) ==
    IF ReadingsUpTo(t) = {} THEN oracle[1]
    ELSE oracle[CHOOSE i \in ReadingsUpTo(t) : \A j \in ReadingsUpTo(t) : j <= i]

\* C17: in both engines the reading used at a query timestamp t is the one with the largest
\* index among the readings with timestamp <= t, the first reading when every reading is later
\* than t; with an empty oracle list the fill-driven engine passes no oracle to the quoter and
\* the snapshot-driven engine uses a neutral reading whose price equals its threshold.
C17_OracleLookup ==
    /\ AfterSell =>
           step.oracle_snapshot =
               IF oracle = <<>> THEN None ELSE Some(ReadingFor(step.fill[1].timestamp))
    /\ AfterSnapshot =>
           IF oracle = <<>>
           THEN step[1].oracle_obj.current_price = step[1].oracle_obj.threshold
           ELSE LET reading == ReadingFor(step[1].snapshot.timestamp)
                IN  step[1].oracle_obj = Oracle(reading.price, reading.threshold)

\* a trade at the timestamp two readings share: the later of the two is used
C17_Witness ==
    /\ AfterSell
    /\ oracle # <<>>
    /\ Cardinality({i \in DOMAIN oracle : oracle[i].timestamp = step.fill[1].timestamp}) = 2
    /\ step.oracle_snapshot = Some(oracle[2])

\* a trade before every reading: the first reading is used
C17_FirstReadingWitness ==
    /\ AfterSell
    /\ oracle # <<>>
    /\ ReadingsUpTo(step.fill[1].timestamp) = {}
    /\ step.oracle_snapshot = Some(oracle[1])

\* no oracle data: None in the fill-driven engine, a neutral reading in the snapshot-driven one
C17_NoOracleWitness == AfterSell /\ oracle = <<>> /\ step.oracle_snapshot = None

C17_NeutralWitness ==
    AfterSnapshot /\ oracle = <<>> /\ step[1].oracle_obj = Oracle(97000, 97000)

\* a snapshot at the timestamp of the last reading: that reading is used
C17_SnapshotWitness ==
    /\ AfterSnapshot
    /\ oracle # <<>>
    /\ step[1].snapshot.timestamp = oracle[Len(oracle)].timestamp
    /\ step[1].oracle_obj.current_price = oracle[Len(oracle)].price
    /\ oracle[Len(oracle)].price # oracle[1].price

\* ------------------------------------------------------------------ core/models.py: calls of Inventory.update_position
\* The receiver of a call is the object the variable inventory holds; the returned object is
\* held by result until the caller rebinds ("inventory = inventory.update_position(...)").

\* the receiver after the call: update_position assigns to no field of self
self_after_update_in_place(self, returned_inv) == returned_inv

self_after_update(self, returned_inv) == self

Sides == {"up", "down", "DOWN"}
Quantities == {-3, -2, 0, 1}
Prices == {470, 500}
Receivers == {Inventory(u, <<400, 1>>, d, <<450, 1>>) : u, d \in {0, 2}}

InventoryInit ==
    /\ raw_data = RawData(EmptyBook, EmptyBook, 0, <<>>)
    /\ recon = from_raw_data(raw_data)
    /\ apply_count = <<>>
    /\ max_queried = -1
    /\ last_query = -1
    /\ monotone = TRUE
    /\ calls = 0
    /\ returned = NoSnapshot
    /\ quoter = None
    /\ oracle = <<>>
    /\ initial_inventory = None
    /\ orderbooks = <<>>
    /\ fills = <<>>
    /\ resolution_timestamp = None
    /\ pc = "inventory"
    /\ idx = 0
    /\ inventory \in {Some(inv) : inv \in Receivers}
    /\ position_history = <<>>
    /\ matched_fills = <<>>
    /\ orderbook_history = <<>>
    /\ windows = <<>>
    /\ oracle_history = <<>>
    /\ total_fills_considered = 0
    /\ up_fills = 0
    /\ down_fills = 0
    /\ total_volume = 0
    /\ step = None
    /\ sells_seen = 0
    /\ result = None

\* new_inv = inventory.update_position(side, qty, price)
UpdatePosition(side, qty, price) ==
    /\ pc = "inventory"
    /\ idx < MaxFills
    /\ result = None
    /\ LET new_inv == update_position(inventory[1], side, qty, price)
       IN  /\ result' = Some(new_inv)
           /\ inventory' = Some(self_after_update(inventory[1], new_inv))
    /\ step' = Some([side |-> side, qty |-> qty, price |-> price, self |-> inventory[1]])
    /\ idx' = idx + 1
    /\ UNCHANGED <<reconVars, argVars, pc, position_history, matched_fills, oracle_history,
                   total_fills_considered, up_fills, down_fills, total_volume,
                   orderbook_history, windows, sells_seen>>

\* inventory = new_inv
Rebind ==
    /\ pc = "inventory"
    /\ result # None
    /\ inventory' = result
    /\ result' = None
    /\ step' = None
    /\ UNCHANGED <<reconVars, argVars, pc, idx, position_history, matched_fills, oracle_history,
                   total_fills_considered, up_fills, down_fills, total_volume,
                   orderbook_history, windows, sells_seen>>

InventoryNext ==
    \/ \E side \in Sides, qty \in Quantities, price \in Prices : UpdatePosition(side, qty, price)
    \/ Rebind

SpecInventory == InventoryInit /\ [][InventoryNext]_vars

\* ------------------------------------------------------------------ claims on Inventory.update_position
AfterUpdate == pc = "inventory" /\ result # None

\* the side a call updates: "up" for the string "up", DOWN for every other string
UpdatedSide == IF step[1].side = "up" THEN "up" ELSE "down"

QtyOf(inv, side) == IF side = "up" THEN inv.up_qty ELSE inv.down_qty
AvgOf(inv, side) == IF side = "up" THEN inv.up_avg ELSE inv.down_avg
OtherSide(side) == IF side = "up" THEN "down" ELSE "up"

\* avg = (old_qty * old_avg + qty * price) / (old_qty + qty), cross-multiplied
IsWeightedAverage(avg, old_qty, old_avg, qty, price) ==
    avg[1] * old_avg[2] * (old_qty + qty) = (old_qty * old_avg[1] + qty * price * old_avg[2]) * avg[2]

\* what every call does whatever the new quantity: a new object, the receiver untouched, the
\* other side copied, the quantities added
UpdateFrame ==
    /\ inventory[1] = step[1].self
    /\ QtyOf(result[1], OtherSide(UpdatedSide)) = QtyOf(step[1].self, OtherSide(UpdatedSide))
    /\ AvgOf(result[1], OtherSide(UpdatedSide)) = AvgOf(step[1].self, OtherSide(UpdatedSide))
    /\ QtyOf(result[1], UpdatedSide) = QtyOf(step[1].self, UpdatedSide) + step[1].qty

C18_ZeroWitness ==
    /\ AfterUpdate
    /\ step[1].self.down_qty = 2 /\ step[1].side = "down" /\ step[1].qty = -2
    /\ result[1].down_qty = 0 /\ result[1].down_avg = step[1].self.down_avg

\* a call that brings the quantity below 0: the old average is kept, not the weighted one
C18_NegativeWitness ==
    /\ AfterUpdate
    /\ step[1].self.up_qty = 2 /\ step[1].side = "up" /\ step[1].qty = -3
    /\ result[1].up_qty = -1 /\ result[1].up_avg = step[1].self.up_avg

\* ------------------------------------------------------------------ core/quoter.py: calls of InventoryMMQuoter.quote
\* The quoter holds its parameters only; a call is a function of its four arguments.  The
\* variable inventory holds the inventory argument, step the other three, result the
\* QuoteResult.

\* the engines' parameters, the same with a 2c edge threshold, and the same with informed
\* flow (p_informed_base = 0.2); lambda_size = 0 throughout: see exp
QuoterParamSets ==
    { QuoterParams(RInt(5), 20, RInt(0), RInt(5), <<1, 2>>, RInt(0), 3, 10, 10),
      QuoterParams(RInt(5), 20, RInt(0), RInt(5), <<1, 2>>, RInt(0), 3, 20, 10),
      QuoterParams(RInt(5), 20, <<1, 5>>, RInt(5), <<1, 2>>, RInt(0), 3, 20, 10) }

QuoteInventories ==
    { Inventory(0, <<500, 1>>, 0, <<500, 1>>), Inventory(2, <<400, 1>>, 0, <<500, 1>>),
      Inventory(0, <<500, 1>>, 2, <<450, 1>>), Inventory(2, <<400, 1>>, 1, <<450, 1>>) }

Markets == {Market(ask_up, 520, ask_down, 520) : ask_up, ask_down \in {530, 540}}

Oracles == {Oracle(97000, 97000), Oracle(97100, 97000), Oracle(97400, 97000), Oracle(97000, 0)}

\* math.exp is exact at 0: with informed flow only the call at the resolution time is taken
MinutesFor(params) == IF params.p_informed_base[1] = 0 THEN {RInt(0), RInt(10)} ELSE {RInt(0)}

QuoterInit ==
    /\ raw_data = RawData(EmptyBook, EmptyBook, 0, <<>>)
    /\ recon = from_raw_data(raw_data)
    /\ apply_count = <<>>
    /\ max_queried = -1
    /\ last_query = -1
    /\ monotone = TRUE
    /\ calls = 0
    /\ returned = NoSnapshot
    /\ quoter \in {Some(params) : params \in QuoterParamSets}
    /\ oracle = <<>>
    /\ initial_inventory = None
    /\ orderbooks = <<>>
    /\ fills = <<>>
    /\ resolution_timestamp = None
    /\ pc = "quoter"
    /\ idx = 0
    /\ inventory \in {Some(inv) : inv \in QuoteInventories}
    /\ position_history = <<>>
    /\ matched_fills = <<>>
    /\ orderbook_history = <<>>
    /\ windows = <<>>
    /\ oracle_history = <<>>
    /\ total_fills_considered = 0
    /\ up_fills = 0
    /\ down_fills = 0
    /\ total_volume = 0
    /\ step = None
    /\ sells_seen = 0
    /\ result = None

\* result = quoter.quote(inventory, market, oracle, minutes_to_resolution)
Quote(market, oracle_obj, minutes_to_resolution) ==
    /\ pc = "quoter"
    /\ result' = Some(mm_quote(quoter[1], inventory[1], market, oracle_obj,
                               minutes_to_resolution))
    /\ step' = Some([market |-> market, oracle |-> oracle_obj,
                     minutes_to_resolution |-> minutes_to_resolution])
    /\ UNCHANGED <<reconVars, argVars, pc, idx, inventory, position_history, matched_fills,
                   oracle_history, total_fills_considered, up_fills, down_fills, total_volume,
                   orderbook_history, windows, sells_seen>>

QuoterNext ==
    \E market \in Markets, oracle_obj \in Oracles, minutes \in MinutesFor(quoter[1]) :
        Quote(market, oracle_obj, minutes)

SpecQuoter == QuoterInit /\ [][QuoterNext]_vars

\* ------------------------------------------------------------------ claims on InventoryMMQuoter.quote
AfterQuote == pc = "quoter" /\ result # None /\ ~Raised(result[1])

QuoteSides == {"up", "down"}
BidOf(X) == IF X = "up" THEN result[1].bid_up ELSE result[1].bid_down
QuoteSizeOf(X) == IF X = "up" THEN result[1].size_up ELSE result[1].size_down
EdgeOf(X) == IF X = "up" THEN result[1].edge_up ELSE result[1].edge_down
SkipReasonOf(X) == IF X = "up" THEN result[1].skip_reason_up ELSE result[1].skip_reason_down
RawOffsetOf(X) == IF X = "up" THEN result[1].raw_up_offset ELSE result[1].raw_down_offset
FinalOffsetOf(X) == IF X = "up" THEN result[1].final_up_offset ELSE result[1].final_down_offset
BestAskOf(X) == IF X = "up" THEN step[1].market.best_ask_up ELSE step[1].market.best_ask_down
BestBidOf(X) == IF X = "up" THEN step[1].market.best_bid_up ELSE step[1].market.best_bid_down

\* the snapped bid of a side, from the offset the result reports as subtracted
SnappedBid(X) == snap_to_tick(RSub(RInt(BestBidOf(X)), FinalOffsetOf(X)))

\* C19: for each side X of every result, bid_X is null if and only if edge_X < edge_threshold,
\* if and only if skip_reason_X is non-null; edge_X = best_ask_X - (snapped bid) is reported
\* whether or not the side is skipped; size_X is 0 whenever bid_X is null; an edge exactly equal
\* to edge_threshold is accepted.
C19_EdgeCheck ==
    AfterQuote =>
        \A X \in QuoteSides :
            /\ (BidOf(X) = None) <=> (EdgeOf(X) < quoter[1].edge_threshold)
            /\ (BidOf(X) = None) <=> (SkipReasonOf(X) # None)
            /\ EdgeOf(X) = BestAskOf(X) - SnappedBid(X)
            /\ BidOf(X) # None => BidOf(X) = Some(SnappedBid(X))
            /\ BidOf(X) = None => QuoteSizeOf(X) = 0
            /\ EdgeOf(X) = quoter[1].edge_threshold => BidOf(X) # None

\* a result with one side skipped, its edge reported all the same, and the other side quoted
C19_Witness ==
    /\ AfterQuote
    /\ \E X, Y \in QuoteSides :
           /\ BidOf(X) = None /\ SkipReasonOf(X) # None /\ QuoteSizeOf(X) = 0
           /\ EdgeOf(X) < quoter[1].edge_threshold
           /\ EdgeOf(X) = BestAskOf(X) - SnappedBid(X)
           /\ BidOf(Y) # None /\ SkipReasonOf(Y) = None /\ QuoteSizeOf(Y) > 0

\* a side accepted at an edge equal to the threshold
C19_ThresholdWitness ==
    /\ AfterQuote
    /\ \E X \in QuoteSides :
           EdgeOf(X) = quoter[1].edge_threshold /\ BidOf(X) # None /\ QuoteSizeOf(X) > 0

AtLeastMinOffset(offset) == ~RLess(offset, RInt(quoter[1].min_offset))

\* C20 (as stated): quote floors every offset at min_offset: for every inventory, market,
\* oracle and time, raw_up_offset, raw_down_offset, final_up_offset and final_down_offset (the
\* offsets actually subtracted from the market best bid) are all >= min_offset.
C20_EveryOffsetFloored ==
    AfterQuote =>
        \A X \in QuoteSides : AtLeastMinOffset(RawOffsetOf(X)) /\ AtLeastMinOffset(FinalOffsetOf(X))

\* the part that holds: the raw offsets are floored, and a final offset is the raw offset
\* times its side's inventory multiplier, whatever that product is
C20_RawOffsetsFloored ==
    AfterQuote =>
        /\ \A X \in QuoteSides : AtLeastMinOffset(RawOffsetOf(X))
        /\ result[1].final_up_offset = RMul(result[1].raw_up_offset, result[1].spread_mult_up)
        /\ result[1].final_down_offset =
               RMul(result[1].raw_down_offset, result[1].spread_mult_down)

\* ------------------------------------------------------------------ claims on degenerate inputs
\* calls of the quoter and runs of the snapshot-driven engine
QuoterOrRunInit == QuoterInit \/ RdsInit

QuoterOrRunNext == QuoterNext \/ RdsNext

SpecQuoterOrRun == QuoterOrRunInit /\ [][QuoterOrRunNext]_vars

\* C21 (as stated): with oracle.threshold = 0, distance_pct evaluates to the fallback 0 (so
\* oracle_adj = 0) and InventoryMMQuoter.quote and RealDataSimulator.run return a result; no
\* exception is raised.
C21_DegenerateOracleFallback ==
    /\ (pc = "quoter" /\ result # None /\ step[1].oracle.threshold = 0) =>
           ~Raised(result[1]) /\ result[1].oracle_adj = RInt(0)
    /\ pc # "rds_raised"

\* the run side alone: a run whose oracle readings have threshold 0 ends with a result
C21_RunReturns ==
    (pc \in {"rds_loop", "rds_done", "rds_raised"} /\ oracle # <<>> /\ oracle[1].threshold = 0) =>
        pc # "rds_raised"

\* ------------------------------------------------------------------ core/quoter.py: calls of calculate_adverse_selection
\* The variable result holds the latest call (its argument and what it returned), step the
\* call before it, on the same quoter.
AdverseParamSets ==
    { QuoterParams(RInt(5), base_spread, p_informed_base, time_decay_minutes, <<1, 2>>, RInt(0), 3, 10, 10) :
        base_spread \in {20, -20},
        p_informed_base \in {RInt(0), <<1, 5>>, RInt(2), <<-1, 5>>},
        time_decay_minutes \in {RInt(5), RInt(10), RInt(-5), RInt(0)} }

MinutesToResolution == {RInt(0), RInt(5), RInt(10)}

AdverseInit ==
    /\ raw_data = RawData(EmptyBook, EmptyBook, 0, <<>>)
    /\ recon = from_raw_data(raw_data)
    /\ apply_count = <<>>
    /\ max_queried = -1
    /\ last_query = -1
    /\ monotone = TRUE
    /\ calls = 0
    /\ returned = NoSnapshot
    /\ quoter \in {Some(params) : params \in AdverseParamSets}
    /\ oracle = <<>>
    /\ initial_inventory = None
    /\ orderbooks = <<>>
    /\ fills = <<>>
    /\ resolution_timestamp = None
    /\ pc = "adverse"
    /\ idx = 0
    /\ inventory = None
    /\ position_history = <<>>
    /\ matched_fills = <<>>
    /\ orderbook_history = <<>>
    /\ windows = <<>>
    /\ oracle_history = <<>>
    /\ total_fills_considered = 0
    /\ up_fills = 0
    /\ down_fills = 0
    /\ total_volume = 0
    /\ step = None
    /\ sells_seen = 0
    /\ result = None

\* p_informed, spread = quoter.calculate_adverse_selection(minutes_to_resolution)
CalculateAdverseSelection(minutes_to_resolution) ==
    /\ pc = "adverse"
    /\ result' = Some([ minutes_to_resolution |-> minutes_to_resolution,
                        returned |-> calculate_adverse_selection(quoter[1],
                                                                 minutes_to_resolution) ])
    /\ step' = result
    /\ UNCHANGED <<reconVars, argVars, pc, idx, inventory, position_history, matched_fills,
                   oracle_history, total_fills_considered, up_fills, down_fills, total_volume,
                   orderbook_history, windows, sells_seen>>

AdverseNext == \E minutes \in MinutesToResolution : CalculateAdverseSelection(minutes)

SpecAdverse == AdverseInit /\ [][AdverseNext]_vars

\* ------------------------------------------------------------------ claims on the adverse-selection layer
AfterAdverse == pc = "adverse" /\ result # None /\ ~Raised(result[1].returned)

\* two calls in a row returned, the later one for a time to resolution at least as long
LaterCallFurtherOut ==
    /\ AfterAdverse
    /\ step # None
    /\ ~Raised(step[1].returned)
    /\ ~RLess(result[1].minutes_to_resolution, step[1].minutes_to_resolution)

DecayingInformedFlow ==
    ~RLess(quoter[1].p_informed_base, RInt(0)) /\ RLess(RInt(0), quoter[1].time_decay_minutes)

PInformedCapped == ~RLess(<<4, 5>>, result[1].returned.p_informed)

SpreadCapped ==
    quoter[1].base_spread >= 0 =>
        ~RLess(RScale(quoter[1].base_spread, <<17, 5>>), result[1].returned.spread)

PInformedNotIncreased == ~RLess(step[1].returned.p_informed, result[1].returned.p_informed)

SpreadNotIncreased == ~RLess(step[1].returned.spread, result[1].returned.spread)

C22_NegativeSpreadWitness ==
    /\ LaterCallFurtherOut
    /\ DecayingInformedFlow
    /\ quoter[1].base_spread < 0
    /\ RLess(step[1].returned.spread, result[1].returned.spread)

\* time_decay_minutes = 0: the layer raises instead of returning
C22_RaisedWitness == pc = "adverse" /\ result # None /\ Raised(result[1].returned)

\* ------------------------------------------------------------------ tuning/backtester.py: Backtester.run
\* The locals of run() are held by the variables of the other runs: orderbooks is the ticks
\* argument, matched_fills the list fills of FillRecord, position_history the list
\* inventory_history, oracle_history the list pnl_history, total_fills_considered the counter
\* total_quotes.
MarketTick(timestamp, oracle_price, threshold, best_ask_up, best_bid_up, best_ask_down, best_bid_down, minutes_to_resolution) ==
    [ timestamp |-> timestamp, oracle_price |-> oracle_price, threshold |-> threshold,
      best_ask_up |-> best_ask_up, best_bid_up |-> best_bid_up,
      best_ask_down |-> best_ask_down, best_bid_down |-> best_bid_down,
      minutes_to_resolution |-> minutes_to_resolution ]

FillRecord(timestamp, side, qty, price, spread_captured) ==
    [ timestamp |-> timestamp, side |-> side, qty |-> qty, price |-> price,
      spread_captured |-> spread_captured ]

\* FillSimulator(): base_fill_prob = 0.3, edge_sensitivity = 10.0
FillSimulator == [base_fill_prob |-> <<3, 10>>, edge_sensitivity |-> RInt(10)]

\* the two values self.rng.random() yields in one call of simulate_fill, each in [0, 1)
RngDraws == {[first |-> u, second |-> v] : u \in {<<1, 4>>, <<19, 20>>}, v \in {RInt(0), <<1, 2>>}}

\* "if filled and qty > 0"
fill_recorded_any_qty(filled, qty) == filled

fill_recorded(filled, qty) == filled /\ qty > 0

\* simulate_fill(bid, market_ask, size): (filled, fill_qty); the edge is in dollars, bid and
\* market_ask in mils; sizes are multiples of 4 and fill_pct is 1/2 or 3/4, so quantities are
\* whole
simulate_fill(sim, bid, market_ask, size, draws) ==
    LET edge == Rat(market_ask - bid, ONE)
        fill_prob == RMin(<<9, 10>>,
                          RMul(sim.base_fill_prob,
                               RAdd(RInt(1), RMul(sim.edge_sensitivity, edge))))
        fill_pct == RAdd(<<1, 2>>, RMul(<<1, 2>>, draws.second))
    IN  IF market_ask - bid <= 0 THEN [filled |-> FALSE, qty |-> 0]
        ELSE IF RLess(draws.first, fill_prob)
             THEN [filled |-> TRUE, qty |-> RScale(size, fill_pct)[1]]
             ELSE [filled |-> FALSE, qty |-> 0]

\* lines 229-238: the mark-to-market PnL after a tick
tick_pnl(inv, market) ==
    LET mid_up == Rat(market.best_ask_up + market.best_bid_up, 2)
        mid_down == Rat(market.best_ask_down + market.best_bid_down, 2)
        realized == RScale(pairs(inv), RSub(RInt(ONE), combined_avg(inv)))
        unrealized == RAdd(RScale(inv.up_qty - pairs(inv), RSub(mid_up, inv.up_avg)),
                           RScale(inv.down_qty - pairs(inv), RSub(mid_down, inv.down_avg)))
    IN  RAdd(realized, unrealized)

\* lines 188-205 and 207-224: the order of one side; the FillRecord list and the inventory
\* after it
side_fill(inv, timestamp, side, bid, size, market_ask, draws) ==
    IF bid = None THEN [records |-> <<>>, inventory |-> inv]
    ELSE LET sim == simulate_fill(FillSimulator, bid[1], market_ask, size, draws)
         IN  IF fill_recorded(sim.filled, sim.qty)
             THEN [ records   |-> <<FillRecord(timestamp, side, sim.qty, bid[1],
                                               market_ask - bid[1])>>,
                    inventory |-> update_position(inv, side, sim.qty, bid[1]) ]
             ELSE [records |-> <<>>, inventory |-> inv]

\* the UP order, then the DOWN order on the inventory the UP order left
tick_fills(inv, timestamp, market, qt, draws_up, draws_down) ==
    LET up == side_fill(inv, timestamp, "up", qt.bid_up, qt.size_up, market.best_ask_up,
                        draws_up)
        down == side_fill(up.inventory, timestamp, "down", qt.bid_down, qt.size_down,
                          market.best_ask_down, draws_down)
    IN  [records |-> up.records \o down.records, inventory |-> down.inventory]

\* run(), lines 161-165: the state on entry to the for loop
BacktestProlog ==
    /\ pc = "bt_loop"
    /\ idx = 0
    /\ inventory = IF initial_inventory = None
                   THEN Some(Inventory(0, <<500, 1>>, 0, <<500, 1>>))
                   ELSE initial_inventory
    /\ position_history = <<>>
    /\ matched_fills = <<>>
    /\ orderbook_history = <<>>
    /\ windows = <<>>
    /\ oracle_history = <<>>
    /\ total_fills_considered = 0
    /\ up_fills = 0
    /\ down_fills = 0
    /\ total_volume = 0
    /\ step = None
    /\ sells_seen = 0
    /\ result = None

\* one iteration of the for loop of Backtester.run: tick number idx (from 0), with the values
\* the random generator yields for the UP order and for the DOWN order
ProcessTick(draws_up, draws_down) ==
    /\ pc = "bt_loop"
    /\ idx < Len(orderbooks)
    /\ LET tick == orderbooks[idx + 1]
           market == Market(tick.best_ask_up, tick.best_bid_up,
                            tick.best_ask_down, tick.best_bid_down)
           oracle_obj == Oracle(tick.oracle_price, tick.threshold)
       IN  \E qt \in {mm_quote(quoter[1], inventory[1], market, oracle_obj,
                               tick.minutes_to_resolution)} :
               IF Raised(qt)
               THEN /\ pc' = "bt_raised"
                    /\ result' = Some(qt)
                    /\ UNCHANGED <<idx, inventory, matched_fills, position_history,
                                   oracle_history, total_fills_considered, step>>
               ELSE \E new \in {tick_fills(inventory[1], tick.timestamp, market, qt,
                                          draws_up, draws_down)} :
                        /\ pc' = pc
                        /\ result' = result
                        /\ idx' = idx + 1
                        /\ total_fills_considered' =
                               total_fills_considered + (IF qt.bid_up # None THEN 1 ELSE 0)
                                                      + (IF qt.bid_down # None THEN 1 ELSE 0)
                        /\ matched_fills' = matched_fills \o new.records
                        /\ inventory' = Some(new.inventory)
                        /\ position_history' =
                               Append(position_history,
                                      <<new.inventory.up_qty, new.inventory.down_qty>>)
                        /\ oracle_history' =
                               Append(oracle_history, tick_pnl(new.inventory, market))
                        /\ step' = Some([tick |-> tick, market |-> market, quote |-> qt])
    /\ UNCHANGED <<reconVars, argVars, up_fills, down_fills, total_volume, orderbook_history,
                   windows, sells_seen>>

\* run(), lines 240-278: the result object; calculate_metrics (numpy statistics) is kept as
\* the arguments it is called with
BacktestReturn ==
    /\ pc = "bt_loop"
    /\ idx = Len(orderbooks)
    /\ pc' = "bt_done"
    /\ result' =
           Some([ metrics |->
                      [ pnl_history |-> oracle_history,
                        fills |-> matched_fills,
                        final_inventory_up |-> inventory[1].up_qty,
                        final_inventory_down |-> inventory[1].down_qty,
                        final_up_avg |-> inventory[1].up_avg,
                        final_down_avg |-> inventory[1].down_avg,
                        total_quotes |-> total_fills_considered,
                        final_market_up_mid |->
                            IF orderbooks # <<>>
                            THEN Rat(orderbooks[Len(orderbooks)].best_ask_up
                                       + orderbooks[Len(orderbooks)].best_bid_up, 2)
                            ELSE RInt(500),
                        final_market_down_mid |->
                            IF orderbooks # <<>>
                            THEN Rat(orderbooks[Len(orderbooks)].best_ask_down
                                       + orderbooks[Len(orderbooks)].best_bid_down, 2)
                            ELSE RInt(500) ],
                  fills |-> matched_fills,
                  pnl_history |-> oracle_history,
                  inventory_history |-> position_history,
                  params |-> quoter[1] ])
    /\ UNCHANGED <<reconVars, argVars, idx, inventory, position_history, matched_fills,
                   oracle_history, total_fills_considered, up_fills, down_fills, total_volume,
                   orderbook_history, windows, step, sells_seen>>

\* ticks whose best bids and asks lie strictly between 0 and 1, bid < ask on each side
TickSides == {<<30, 10>>, <<530, 520>>}

BacktestTicks ==
    { MarketTick(0, 97000, 97000, up[1], up[2], down[1], down[2], RInt(10)) :
        up, down \in TickSides }

BacktestQuoters ==
    {QuoterParams(RInt(5), 20, RInt(0), RInt(5), <<1, 2>>, RInt(0), 4, 10, 10)}

BacktestInit ==
    /\ raw_data = RawData(EmptyBook, EmptyBook, 0, <<>>)
    /\ recon = from_raw_data(raw_data)
    /\ apply_count = <<>>
    /\ max_queried = -1
    /\ last_query = -1
    /\ monotone = TRUE
    /\ calls = 0
    /\ returned = NoSnapshot
    /\ quoter \in {Some(q) : q \in BacktestQuoters}
    /\ oracle = <<>>
    /\ initial_inventory = None
    /\ orderbooks \in UNION {[1 .. n -> BacktestTicks] : n \in 0 .. MaxSnapshots}
    /\ fills = <<>>
    /\ resolution_timestamp = None
    /\ BacktestProlog

BacktestNext ==
    \/ \E draws_up, draws_down \in RngDraws : ProcessTick(draws_up, draws_down)
    \/ BacktestReturn

SpecBacktester == BacktestInit /\ [][BacktestNext]_vars

\* ------------------------------------------------------------------ claims on Backtester.run
RecordedFills == {matched_fills[i] : i \in DOMAIN matched_fills}

TickInRange(tick) ==
    /\ 0 < tick.best_bid_up /\ tick.best_bid_up < tick.best_ask_up /\ tick.best_ask_up < ONE
    /\ 0 < tick.best_bid_down /\ tick.best_bid_down < tick.best_ask_down
    /\ tick.best_ask_down < ONE

\* C23 (as stated): for any tick sequence whose best bids and asks lie strictly between 0 and
\* 1 with bid < ask on each side, every recorded fill has side in {up, down}, qty > 0 and a
\* price (our bid) strictly between 0 and 1.
C23_RecordedFillsValid ==
    (pc \in {"bt_loop", "bt_done"} /\ \A i \in DOMAIN orderbooks : TickInRange(orderbooks[i])) =>
        \A f \in RecordedFills :
            f.side \in {"up", "down"} /\ f.qty > 0 /\ 0 < f.price /\ f.price < ONE

\* the part that holds: side, quantity, and a price below the market's best ask, below 1
C23_RecordedFillsSideQtyAsk ==
    (pc \in {"bt_loop", "bt_done"} /\ \A i \in DOMAIN orderbooks : TickInRange(orderbooks[i])) =>
        \A f \in RecordedFills : f.side \in {"up", "down"} /\ f.qty > 0 /\ f.price < ONE

\* ------------------------------------------------------------------ orderbook_reconstructor.py: calls of _apply_change
\* The variable recon holds the instance; step holds the delta of the latest call and the
\* instance as it was before the call.
Deltas ==
    [timestamp : {0}, asset_id : {UP_TOKEN, DOWN_TOKEN, "other_token"}, price : {520, 600},
     size : ChangeSizes, side : {"BUY", "SELL", "ask"}]

ApplyChangeInit ==
    /\ raw_data \in {RawData(b[1], b[2], b[3], <<>>) : b \in InitialBooks}
    /\ recon = from_raw_data(raw_data)
    /\ apply_count = <<>>
    /\ max_queried = -1
    /\ last_query = -1
    /\ monotone = TRUE
    /\ calls = 0
    /\ returned = NoSnapshot
    /\ NoRun

\* self._apply_change(change)
ApplyChange(change) ==
    /\ pc = "idle"
    /\ idx < MaxChanges
    /\ recon' = apply_change(recon, change)
    /\ step' = Some([change |-> change, before |-> recon])
    /\ idx' = idx + 1
    /\ UNCHANGED <<raw_data, apply_count, max_queried, last_query, monotone, calls, returned,
                   argVars, pc, inventory, position_history, matched_fills, oracle_history,
                   total_fills_considered, up_fills, down_fills, total_volume,
                   orderbook_history, windows, sells_seen, result>>

ApplyChangeNext == \E change \in Deltas : ApplyChange(change)

SpecApplyChange == ApplyChangeInit /\ [][ApplyChangeNext]_vars

\* ------------------------------------------------------------------ claims on _apply_change
AfterApplyChange == pc = "idle" /\ step # None

BookMaps == {"up_bids", "up_asks", "down_bids", "down_asks"}

\* the map a delta names: by its token and its side, buy for bids and any other side for asks
NamedMaps(change) ==
    LET side == IF Lower(change.side) = "buy" THEN "bids" ELSE "asks"
    IN  IF change.asset_id = UP_TOKEN THEN {IF side = "bids" THEN "up_bids" ELSE "up_asks"}
        ELSE IF change.asset_id = DOWN_TOKEN
        THEN {IF side = "bids" THEN "down_bids" ELSE "down_asks"}
        ELSE {}

\* the level (map, price) is the same in two instances: absent in both or of the same size
SameLevel(a, b, map, price) ==
    /\ (price \in DOMAIN a[map]) <=> (price \in DOMAIN b[map])
    /\ price \in DOMAIN a[map] => a[map][price] = b[map][price]

AllPrices(a, b) == UNION {DOMAIN a[map] \cup DOMAIN b[map] : map \in BookMaps}

\* C24: applying one delta changes at most the single level (outcome, side, price) it names,
\* where side buy addresses bids and any other side addresses asks; every other level of all
\* four maps is unchanged, and a delta whose asset_id is neither the UP nor the DOWN token
\* leaves the whole book unchanged.
C24_ApplyChangeFrame ==
    AfterApplyChange =>
        LET change == step[1].change
            before == step[1].before
        IN  /\ \A map \in BookMaps : \A price \in AllPrices(before, recon) :
                   (map \notin NamedMaps(change) \/ price # change.price) =>
                       SameLevel(before, recon, map, price)
            /\ change.asset_id \notin {UP_TOKEN, DOWN_TOKEN} => recon = before

\* a delta of side "ask" on the DOWN token that removes the ask at 0.52 set by the delta
\* before it, the bid at 0.52 staying as it was
C24_Witness ==
    /\ AfterApplyChange
    /\ step[1].change.asset_id = DOWN_TOKEN /\ step[1].change.side = "ask"
    /\ step[1].change.price = 520 /\ step[1].change.size = 0
    /\ 520 \in DOMAIN step[1].before.down_asks
    /\ 520 \notin DOMAIN recon.down_asks
    /\ 520 \in DOMAIN recon.down_bids

\* a delta on a token that is neither UP nor DOWN: the instance is what it was
C24_OtherTokenWitness ==
    /\ AfterApplyChange
    /\ step[1].change.asset_id = "other_token" /\ step[1].change.size > 0
    /\ recon = step[1].before
    /\ recon.up_bids # EmptyDict

\* ------------------------------------------------------------------ claims on the order of the queries
\* C25 (as stated): FillDrivenSimulator.run never queries its reconstructor out of order: for
\* any fills list sorted by timestamp (ties allowed) and any quoter, the sequence of
\* timestamps passed to get_orderbook_at during the run (trade.timestamp - epsilon for each
\* considered sell, then trade.timestamp for each match) is non-decreasing.
C25_QueriesNonDecreasing == InLoopOrDone => monotone

\* ------------------------------------------------------------------ claims on backward queries
\* a call get_orderbook_at(T2) right after a call get_orderbook_at(T1) with T2 < T1
BackwardQuery == calls > 0 /\ calls' = calls + 1 /\ last_query' < last_query

SameLevelsReturned ==
    \A tok \in Tokens, s \in BookSides :
        ReturnedLevels(returned', tok, s) = ReturnedLevels(returned, tok, s)

\* the latest call asked for a timestamp before the largest one asked so far
BehindLatest == calls > 0 /\ last_query < max_queried

ReturnsBookOfLargestQuery ==
    /\ \A tok \in Tokens, s \in BookSides :
           ReturnedLevels(returned, tok, s) = ReferenceLevels(tok, s, max_queried)
    /\ returned.timestamp = last_query

\* C26: if get_orderbook_at(T2) is called after get_orderbook_at(T1) with T2 < T1, no delta is
\* applied or undone, the internal state is unchanged, and the returned levels equal those
\* returned for T1 (the book as of the largest timestamp queried so far); only the returned
\* snapshot's timestamp field is T2.
C26_BackwardQuery ==
    /\ [][BackwardQuery =>
              /\ apply_count' = apply_count
              /\ recon' = recon
              /\ SameLevelsReturned
              /\ returned'.timestamp = last_query']_vars
    /\ [](BehindLatest => ReturnsBookOfLargestQuery)

\* a query at 0 after a query that applied a delta stamped later: the book returned holds
\* that delta and differs from the book as of 0
C26_Witness ==
    /\ BehindLatest
    /\ last_query = 0
    /\ returned.timestamp = 0
    /\ \E i \in DOMAIN apply_count : apply_count[i] = 1 /\ SortedLog[i].timestamp > 0
    /\ \E tok \in Tokens, s \in BookSides :
           ReturnedLevels(returned, tok, s) # ReferenceLevels(tok, s, 0)

\* ------------------------------------------------------------------ OrderbookReconstructor.reset
ValueError == [raised |-> "ValueError"]

\* the properties initial_timestamp and final_timestamp
initial_timestamp(r) == r.initial_timestamp

final_timestamp(r) ==
    IF r.change_timestamps # <<>>
    THEN r.change_timestamps[Len(r.change_timestamps)]
    ELSE r.initial_timestamp

\* reset(raw_data) with raw_data given: the attributes it assigns, the others kept
reset(r, raw) ==
    LET new_instance == from_raw_data(raw)
    IN  [r EXCEPT !.up_bids = new_instance.up_bids,
                  !.up_asks = new_instance.up_asks,
                  !.down_bids = new_instance.down_bids,
                  !.down_asks = new_instance.down_asks,
                  !.price_changes = new_instance.price_changes,
                  !.change_timestamps = new_instance.change_timestamps,
                  !.last_processed_idx = -1]

\* raw data handed to from_raw_data and to reset: this market at two initial snapshots with
\* bids on UP, and another market whose tokens carry other ids
ResetChanges ==
    [timestamp : Times, asset_id : {UP_TOKEN}, price : {520}, size : {2}, side : {"BUY"}]

OtherMarket ==
    [ up_token_id       |-> "up_token_789",
      down_token_id     |-> "down_token_012",
      initial_snapshots |-> ("up_token_789" :> RawSnapshot(0, FullBook))
                            @@ ("down_token_012" :> RawSnapshot(0, FullBook)),
      price_changes     |-> <<[timestamp |-> 1, asset_id |-> "up_token_789", price |-> 520,
                               size |-> 0, side |-> "BUY"]>> ]

ResetInputs ==
    {RawData(b[1], b[2], b[3], ch) : b \in InitialBooks, ch \in SortedLogs(ResetChanges, MaxChanges)}
        \cup {OtherMarket}

ResetInit ==
    /\ raw_data \in ResetInputs
    /\ recon = from_raw_data(raw_data)
    /\ apply_count = <<>>
    /\ max_queried = -1
    /\ last_query = -1
    /\ monotone = TRUE
    /\ calls = 0
    /\ returned = NoSnapshot
    /\ NoRun

\* get_orderbook_at(t) on the instance
QueryInstance(t) ==
    LET res == get_orderbook_at(recon, t)
    IN  /\ recon' = res.recon
        /\ returned' = res.snapshot
        /\ pc' = "idle"
        /\ result' = None
        /\ step' = None
        /\ UNCHANGED <<raw_data, apply_count, max_queried, last_query, monotone, calls, argVars,
                       idx, inventory, position_history, matched_fills, oracle_history,
                       total_fills_considered, up_fills, down_fills, total_volume, sells_seen,
                       orderbook_history, windows>>

\* reset(raw): raw_data holds the data of the latest reset
Reset(raw) ==
    /\ recon' = reset(recon, raw)
    /\ raw_data' = raw
    /\ pc' = "reset_done"
    /\ result' = None
    /\ step' = Some([before |-> recon])
    /\ UNCHANGED <<returned, apply_count, max_queried, last_query, monotone, calls, argVars,
                   idx, inventory, position_history, matched_fills, oracle_history,
                   total_fills_considered, up_fills, down_fills, total_volume, sells_seen,
                       orderbook_history, windows>>

\* reset(): "if raw_data is None: raise ValueError"
ResetWithoutData ==
    /\ pc' = "reset_raised"
    /\ result' = Some(ValueError)
    /\ step' = Some([before |-> recon])
    /\ UNCHANGED <<recon, raw_data, returned, apply_count, max_queried, last_query, monotone,
                   calls, argVars, idx, inventory, position_history, matched_fills,
                   oracle_history, total_fills_considered, up_fills, down_fills, total_volume,
                   sells_seen, orderbook_history, windows>>

ResetNext ==
    \/ \E t \in Times : QueryInstance(t)
    \/ \E raw \in ResetInputs : Reset(raw)
    \/ ResetWithoutData

SpecReset == ResetInit /\ [][ResetNext]_vars

\* the snapshots two instances return for the query sequence t1, t2
SameAnswers(a, b, t1, t2) ==
    LET a1 == get_orderbook_at(a, t1)
        b1 == get_orderbook_at(b, t1)
    IN  /\ a1.snapshot = b1.snapshot
        /\ get_orderbook_at(a1.recon, t2).snapshot = get_orderbook_at(b1.recon, t2).snapshot

ObservationallyEquivalent(a, b) ==
    /\ initial_timestamp(a) = initial_timestamp(b)
    /\ final_timestamp(a) = final_timestamp(b)
    /\ \A t1 \in Times, t2 \in Times : SameAnswers(a, b, t1, t2)

\* C27: after reset(raw_data), whatever the instance's earlier state and earlier data, the
\* instance is observationally equivalent to from_raw_data(raw_data) (same result for every
\* subsequent query sequence, same initial_timestamp and final_timestamp); reset() without
\* raw_data raises ValueError and leaves the state unchanged.
C27_ResetReinitializes ==
    /\ pc = "reset_done" => ObservationallyEquivalent(recon, from_raw_data(raw_data))
    /\ pc = "reset_raised" => result = Some(ValueError) /\ recon = step[1].before

\* what reset does establish: the books, the log and the cursor are those of a fresh instance,
\* and reset() without data raises and keeps the instance
C27_ResetRefreshesBooksAndLog ==
    /\ pc = "reset_done" =>
           LET fresh == from_raw_data(raw_data)
           IN  /\ \A f \in {"up_bids", "up_asks", "down_bids", "down_asks", "price_changes",
                            "change_timestamps", "last_processed_idx"} : recon[f] = fresh[f]
               /\ \A f \in {"up_token_id", "down_token_id", "initial_timestamp"} :
                      recon[f] = step[1].before[f]
    /\ pc = "reset_raised" => result = Some(ValueError) /\ recon = step[1].before

\* ------------------------------------------------------------------ simulation/loaders.py: load_orderbooks_from_raw
\* the four dicts after the loop over initial_snapshots, with initial_timestamp
load_initial_state(data) ==
    LET snaps == data.initial_snapshots
        side_of(tok, s) ==
            IF tok \in DOMAIN snaps THEN LevelsToDict(snaps[tok][s], EmptyDict) ELSE EmptyDict
        RECURSIVE MaxTs(_, _)
        MaxTs(toks, m) ==
            IF toks = {} THEN m
            ELSE LET t == CHOOSE x \in toks : TRUE
                 IN  MaxTs(toks \ {t}, Max(m, snaps[t].timestamp))
    IN  [ up_bids           |-> side_of(data.up_token_id, "bids"),
          up_asks           |-> side_of(data.up_token_id, "asks"),
          down_bids         |-> side_of(data.down_token_id, "bids"),
          down_asks         |-> side_of(data.down_token_id, "asks"),
          initial_timestamp |-> MaxTs(DOMAIN snaps, 0) ]

\* "Apply the change to appropriate orderbook"
load_apply_change(data, st, change) ==
    LET asset_id == change.asset_id
        price_str == change.price
        size == change.size
        side == Lower(change.side)
    IN  IF asset_id = data.up_token_id
        THEN IF side = "buy"
             THEN [st EXCEPT !.up_bids = set_level(@, price_str, size)]
             ELSE [st EXCEPT !.up_asks = set_level(@, price_str, size)]
        ELSE IF asset_id = data.down_token_id
        THEN IF side = "buy"
             THEN [st EXCEPT !.down_bids = set_level(@, price_str, size)]
             ELSE [st EXCEPT !.down_asks = set_level(@, price_str, size)]
        ELSE st

\* "for change in sorted_changes": the change is applied, then, when its timestamp differs
\* from current_timestamp, a snapshot stamped with the previous current_timestamp is built
RECURSIVE load_loop(_, _, _, _, _, _)
load_loop(data, sorted_changes, i, st, current_timestamp, snapshots) ==
    IF i > Len(sorted_changes)
    THEN [st |-> st, current_timestamp |-> current_timestamp, snapshots |-> snapshots]
    ELSE LET change == sorted_changes[i]
             timestamp == change.timestamp
             st1 == load_apply_change(data, st, change)
         IN  IF current_timestamp = None \/ timestamp # current_timestamp[1]
             THEN load_loop(data, sorted_changes, i + 1, st1, Some(timestamp),
                            IF current_timestamp # None
                            THEN Append(snapshots, build_snapshot(st1, current_timestamp[1]))
                            ELSE snapshots)
             ELSE load_loop(data, sorted_changes, i + 1, st1, current_timestamp, snapshots)

load_orderbooks_from_raw(data) ==
    LET st0 == load_initial_state(data)
        initial ==
            IF st0.initial_timestamp > 0
            THEN <<build_snapshot(st0, st0.initial_timestamp)>>
            ELSE <<>>
    IN  IF data.price_changes = <<>> THEN initial
        ELSE LET after == load_loop(data, sorted_by_timestamp(data.price_changes), 1, st0,
                                    None, initial)
                 snapshots ==
                     IF after.current_timestamp # None
                     THEN Append(after.snapshots,
                                 build_snapshot(after.st, after.current_timestamp[1]))
                     ELSE after.snapshots
             IN  sorted_by_timestamp(snapshots)

\* the file's content: initial snapshots taken at a positive time, a log of price changes
LoaderBooks == {<<FullBook, FullBook, 1>>, <<EmptyBook, FullBook, 1>>}

LoaderInputs ==
    {RawData(b[1], b[2], b[3], ch) : b \in LoaderBooks, ch \in SortedLogs(Changes, MaxChanges)}

\* recon is a fresh OrderbookReconstructor built from the same data
LoaderInit ==
    /\ raw_data \in LoaderInputs
    /\ recon = from_raw_data(raw_data)
    /\ apply_count = <<>>
    /\ max_queried = -1
    /\ last_query = -1
    /\ monotone = TRUE
    /\ calls = 0
    /\ returned = NoSnapshot
    /\ NoRun

LoadOrderbooksFromRaw ==
    /\ pc = "idle"
    /\ pc' = "loaded"
    /\ result' = Some(load_orderbooks_from_raw(raw_data))
    /\ UNCHANGED <<reconVars, argVars, idx, inventory, position_history, matched_fills,
                   oracle_history, total_fills_considered, up_fills, down_fills, total_volume,
                   orderbook_history, windows, step, sells_seen>>

LoaderNext == LoadOrderbooksFromRaw

SpecLoader == LoaderInit /\ [][LoaderNext]_vars

Loaded == pc = "loaded" /\ result # None

DeltaTimestamps == {raw_data.price_changes[i].timestamp : i \in DOMAIN raw_data.price_changes}

\* C28: every snapshot load_orderbooks_from_raw returns with timestamp T has, for each outcome
\* and side, the same levels as get_orderbook_at(T) on a fresh OrderbookReconstructor built
\* from the same raw data (exactly the deltas with timestamp <= T); it returns one snapshot
\* for the initial state plus one per distinct delta timestamp, sorted by timestamp.
C28_LoaderAgreesWithReconstructor ==
    Loaded =>
        LET snapshots == result[1]
        IN  /\ \A i \in DOMAIN snapshots :
                   snapshots[i] = get_orderbook_at(recon, snapshots[i].timestamp).snapshot
            /\ Len(snapshots) = 1 + Cardinality(DeltaTimestamps)
            /\ IsSortedByTimestamp(snapshots)

\* what the loader does return: the count and the order
C28_LoaderCountAndOrder ==
    Loaded =>
        LET snapshots == result[1]
        IN  /\ Len(snapshots) = 1 + Cardinality(DeltaTimestamps)
            /\ IsSortedByTimestamp(snapshots)
            /\ {snapshots[i].timestamp : i \in DOMAIN snapshots}
                   = DeltaTimestamps \cup {recon.initial_timestamp}

\* the statement for logs with no delta before the initial snapshot and for the last
\* snapshot of each timestamp only (the initial snapshot is left out when deltas carry its
\* timestamp)
C28_LastSnapshotPerTimestamp ==
    Loaded /\ (\A t \in DeltaTimestamps : t >= recon.initial_timestamp) =>
        LET snapshots == result[1]
        IN  \A i \in DOMAIN snapshots :
                (\A j \in DOMAIN snapshots : j > i => snapshots[j].timestamp # snapshots[i].timestamp)
                    => snapshots[i] = get_orderbook_at(recon, snapshots[i].timestamp).snapshot

\* ------------------------------------------------------------------ from_raw_data on an unsorted log
\* deltas on one level, the UP bid at 0.52, in any order of timestamps
UnsortedChanges ==
    [timestamp : Times, asset_id : {UP_TOKEN}, price : {520}, size : ChangeSizes, side : {"BUY"}]

MaxLogLen == MaxChanges + 1

UnsortedInputs ==
    {RawData(FullBook, FullBook, 0, ch) : ch \in SeqsUpTo(UnsortedChanges, MaxLogLen)}

UnsortedInit ==
    /\ raw_data \in UnsortedInputs
    /\ recon = from_raw_data(raw_data)
    /\ apply_count = [i \in 1 .. Len(raw_data.price_changes) |-> 0]
    /\ max_queried = -1
    /\ last_query = -1
    /\ monotone = TRUE
    /\ calls = 0
    /\ returned = NoSnapshot
    /\ NoRun

UnsortedNext == GetOrderbookAt

SpecUnsorted == UnsortedInit /\ [][UnsortedNext]_vars

InputLog == raw_data.price_changes

\* the deltas of a log that carry timestamp t, in the log's order
StampedAt(log, t) == LET at(c) == c.timestamp = t IN SelectSeq(log, at)

SameLevelAddressed(c, d) ==
    c.asset_id = d.asset_id /\ c.price = d.price /\ Lower(c.side) = Lower(d.side)

\* j is the last delta of the input log among those with its timestamp and level, and an
\* earlier delta of the log shares both
LaterOfATie(j) ==
    /\ \E i \in 1 .. j - 1 :
           InputLog[i].timestamp = InputLog[j].timestamp /\ SameLevelAddressed(InputLog[i], InputLog[j])
    /\ \A k \in DOMAIN InputLog :
           (k > j /\ InputLog[k].timestamp = InputLog[j].timestamp)
               => ~SameLevelAddressed(InputLog[k], InputLog[j])

\* no delta stamped after delta j and at or before T (the largest timestamp queried, whose
\* deltas the instance has applied) names the level of delta j
NotOverriddenBy(j, T) ==
    \A k \in DOMAIN InputLog :
        (InputLog[k].timestamp > InputLog[j].timestamp /\ InputLog[k].timestamp <= T)
            => ~SameLevelAddressed(InputLog[k], InputLog[j])

\* the returned book holds the level of delta c as c says: its size, or no level for size 0
LevelAsDeltaSays(snap, c) ==
    LET levels == ReturnedLevels(snap, c.asset_id, IF Lower(c.side) = "buy" THEN "bids" ELSE "asks")
        at == {l \in levels : l.price = c.price}
    IN  IF c.size > 0 THEN at = {[price |-> c.price, size |-> c.size]} ELSE at = {}

TestLevel(price, size) == [price |-> price, size |-> size]

TestChange(seconds, asset_id, price, size) ==
    [timestamp |-> seconds * Second, asset_id |-> asset_id, price |-> price, size |-> size,
     side |-> "BUY"]

raw_orderbook_data ==
    [ up_token_id       |-> UP_TOKEN,
      down_token_id     |-> DOWN_TOKEN,
      initial_snapshots |->
          (UP_TOKEN :> [timestamp |-> 1000 * Second,
                        bids |-> <<TestLevel(550, 100), TestLevel(540, 200), TestLevel(530, 300)>>,
                        asks |-> <<TestLevel(570, 100), TestLevel(580, 200)>>])
          @@ (DOWN_TOKEN :> [timestamp |-> 1000 * Second,
                             bids |-> <<TestLevel(430, 100), TestLevel(420, 200), TestLevel(410, 300)>>,
                             asks |-> <<TestLevel(450, 100), TestLevel(460, 200)>>]),
      price_changes     |->
          << TestChange(1005, UP_TOKEN, 560, 150),
             TestChange(1010, DOWN_TOKEN, 430, 50),
             TestChange(1020, UP_TOKEN, 550, 0),
             TestChange(1020, UP_TOKEN, 540, 250),
             TestChange(1030, DOWN_TOKEN, 440, 120),
             TestChange(1040, UP_TOKEN, 570, 80),
             TestChange(1050, DOWN_TOKEN, 420, 0) >> ]

TestFills ==
    << RealFill(520, 20, "sell", 1002 * Second, "up"),
       RealFill(570, 30, "buy", 1003 * Second, "up"),
       RealFill(400, 25, "sell", 1007 * Second, "down"),
       RealFill(550, 15, "sell", 1012 * Second, "up"),
       RealFill(390, 30, "sell", 1015 * Second, "down"),
       RealFill(510, 35, "sell", 1022 * Second, "up"),
       RealFill(530, 10, "sell", 1025 * Second, "up"),
       RealFill(410, 20, "sell", 1032 * Second, "down"),
       RealFill(450, 50, "buy", 1035 * Second, "down"),
       RealFill(540, 40, "sell", 1042 * Second, "up"),
       RealFill(380, 15, "sell", 1045 * Second, "down") >>

TestOracle ==
    << OracleSnapshot(97000, 97000, 1000 * Second),
       OracleSnapshot(97100, 97000, 1005 * Second),
       OracleSnapshot(97200, 97000, 1010 * Second),
       OracleSnapshot(96900, 97000, 1015 * Second),
       OracleSnapshot(96800, 97000, 1020 * Second),
       OracleSnapshot(97050, 97000, 1025 * Second),
       OracleSnapshot(97150, 97000, 1030 * Second),
       OracleSnapshot(97300, 97000, 1040 * Second),
       OracleSnapshot(97250, 97000, 1050 * Second) >>

\* the quoters the scenario is run with: offsets of one to four ticks, two quote sizes
TestQuoters == {BrainDeadQuoter(offset, size) : offset \in {10, 20, 30, 40}, size \in {50, 10}}

\* run_test: a fresh reconstructor, the fills and the oracle of create_test_data
ScenarioInit ==
    /\ raw_data = raw_orderbook_data
    /\ recon = from_raw_data(raw_data)
    /\ apply_count = [i \in 1 .. Len(raw_data.price_changes) |-> 0]
    /\ max_queried = -1
    /\ last_query = -1
    /\ monotone = TRUE
    /\ calls = 0
    /\ returned = NoSnapshot
    /\ quoter \in {Some(q) : q \in TestQuoters}
    /\ oracle \in {TestOracle, <<>>}
    /\ initial_inventory \in InitialInventories
    /\ fills = TestFills
    /\ orderbooks = <<>> /\ resolution_timestamp = None
    /\ orderbook_history = <<>> /\ windows = <<>>
    /\ RunProlog

\* "for fill in fills"
ProcessNextFill == idx < Len(fills) /\ ConsumeFill(fills[idx + 1])

ScenarioReturn == idx = Len(fills) /\ Return

ScenarioNext == ProcessNextFill \/ ScenarioReturn

SpecScenario == ScenarioInit /\ [][ScenarioNext]_vars

\* the run of the test: BrainDeadQuoter(offset=0.02) with the default size
AsInTheTest == quoter = Some(BrainDeadQuoter(20, 50))

MatchedSeconds == {matched_fills[i].timestamp : i \in DOMAIN matched_fills}

SecondsOf(S) == {t * Second : t \in S}

\* the iteration on the k-th fill of the list has just run
JustProcessed(k) == pc = "loop" /\ idx = k /\ step.fill = Some(TestFills[k])

C30_BidWitness ==
    /\ AsInTheTest
    /\ JustProcessed(7)
    /\ best_bid(step.orderbook[1].up) = Some(560)
    /\ step.matched

====
